---- MODULE Spec2Model ----
(***************************************************************************)
(* Event bridge of windows-audio-control: notification sinks registered    *)
(* with the audio subsystem, the bounded channels they forward into, the   *)
(* background send tasks spawned by every callback, and the async          *)
(* iterators that drain the channels and tear the registrations down.      *)
(*                                                                         *)
(* Two worlds share the module, the collection-level streams              *)
(* (collection.rs, lib.rs) and one AudioDevice with its volume streams     *)
(* (device.rs, lib.rs); beside them stand the device's mute flag and the   *)
(* top-level listeners of comapi.rs.  The specifications are               *)
(*   SpecColl     lifecycle of two collection streams                      *)
(*   SpecCb       one collection stream, every callback, wide parameters   *)
(*   SpecDev      the AudioDevice, its volume streams and notifications    *)
(*   SpecApi      the request/response calls of the enumerator             *)
(*   SpecTear     the teardown paths of both worlds                        *)
(*   SpecBridge   callbacks, send tasks and pulls, awaited or cancelled    *)
(*   SpecBusy     every callback against a consumer that is slow           *)
(*   SpecLive     teardown and replacement under fair scheduling           *)
(*   SpecDeliver  one collection stream end to end, fair scheduling        *)
(*   SpecFlow     one stream of each world from start to drop, fair        *)
(*   SpecMute     toggle_mute against other writers of the mute flag       *)
(*   SpecCom      creation, stop and drop of the AudioEventListener        *)
(*   SpecVol      one volume stream, notifications of every channel count  *)
(*   SpecReg      register_volume_change with the state it began in        *)
(*   SpecNum      the numeric conversions of the collection callbacks      *)
(***************************************************************************)
EXTENDS Integers, Sequences, FiniteSets, TLC

\* ------------------------------------------------------------------ bounds
\* number of PyDeviceCollection.events calls that may succeed
MaxStreams == 2
\* callback invocations the subsystem makes in one behaviour
MaxCalls == 2
\* callback invocations in one behaviour of SpecCb, which draws the
\* callbacks' raw parameters from the wide input sets
MaxCbCalls == 2
\* bits of a usize and of a u32 in the model: the real widths are 64 and
\* 32, what matters is that a usize is wider than a u32
UsizeBits == 5
U32Bits == 3
\* bits of the dwnewstate values SpecNum draws: the real width is 32, what
\* matters is that there are bits above the four of the state mask
StateBits == 6
\* toggle_mute calls and external writes of the mute flag in one behaviour
MaxMuteOps == 3
\* top-level AudioEventListener objects created in one behaviour
MaxListeners == 3
\* pulls one iterator has pending at a time
MaxPending == 2
\* OnNotify invocations in one behaviour of SpecLive, which runs the
\* volume streams of a device with their replacement
MaxNotifs == 1

\* capacity of the channel made by bounded(1)
ChannelCapacity == 1

\* DEVICE_STATEMASK_ALL, the union of the four defined state bits
DEVICE_STATEMASK_ALL == 15

Streams == 1..MaxStreams

Listeners == 1..MaxListeners

VARIABLES
    \* ---- collection world
    collRegistered,   \* sinks registered with the IMMDeviceEnumerator
    itState,          \* CollectionEventsIterator: "unborn" | "live" | "dropped"
    source,           \* CollectionEventsIterator.source is Some
    queue,            \* items buffered in the stream's channel
    tasks,            \* background send tasks spawned and not yet finished
    received,         \* what the pulls' futures ended with, in the order they ended
    ended,            \* a pull of the consumer ended in StopAsyncIteration
    calls,            \* callback invocations made so far
    lastCall,         \* what the last callback invocation did
    pending,          \* pulls whose future has not ended: each owns a Receiver
    taken,            \* Ok items a pull's future took from the channel and holds
    cancelled,        \* futures waiting in recv whose awaitable was cancelled
    ctaken,           \* Ok items held by futures whose awaitable was cancelled
    \* ---- device world: one AudioDevice and its volume streams
    epRegistered,     \* volume sinks registered with the IAudioEndpointVolume
    epEver,           \* volume sinks that have ever been registered
    unregCount,       \* successful UnregisterControlChangeNotify calls per sink
    volume_listener,  \* AudioDevice.volume_listener: 0 is None, else the sink
    devState,         \* AudioDevice: "alive" | "dropped"
    regPc,            \* position inside register_volume_change
    regNew,           \* the sink register_volume_change is creating
    vIt,              \* AudioDeviceEventIterator: "unborn" | "live" | "dropped" | "failed"
    vqueue,           \* events buffered in the volume stream's channel
    vtasks,           \* background send tasks spawned by OnNotify
    vreceived,        \* the events the pulls' futures ended with, in order
    vended,           \* a pull of the consumer ended in StopAsyncIteration
    vcalls,           \* OnNotify invocations made so far
    vLastCall,        \* what the last OnNotify invocation did
    crashed,          \* the process died in an out-of-bounds read
    vpending,         \* volume pulls whose future has not ended
    vtaken,           \* events a volume pull's future took from the channel and holds
    vcancelled,       \* volume futures waiting in recv, their awaitable cancelled
    vctaken,          \* events held by volume futures whose awaitable was cancelled
    \* ---- observations: what calls returned and what steps met
    api,              \* the last enumerator / collection call and its result
    lastClose,        \* the last close() or drop of a collection iterator
    tried,            \* sinks for which an unregister has been attempted
    cbSawFull,        \* the last callback ran while its channel was full
    sendSawClosed,    \* the last finished send found its channel closed
    invoked,          \* raw parameters of the callback invocations, in order
    regSnap,          \* registration state when register_volume_change began
    \* ---- the endpoint's mute flag and AudioDevice::toggle_mute
    mute,             \* the mute flag the endpoint holds
    tgPc,             \* position inside toggle_mute: "idle" | "read"
    tgCur,            \* the toggle_mute call in progress
    tgHist,           \* finished toggle_mute calls and external writes, in order
    \* ---- the top-level AudioEventListener objects (comapi.rs)
    coInits,          \* successful CoInitializeEx calls made by each new()
    coUninits,        \* CoUninitialize calls made by each listener's drop
    aelState,         \* AudioEventListener: "unborn" | "alive" | "failed" | "dropped"
    volume_listeners, \* AudioEventListener.volume_listeners, as a set of sinks
    aelRegistered     \* sinks registered with the default output endpoint

collVars == <<collRegistered, itState, source, queue, tasks, received, ended,
              calls, lastCall, pending, taken, cancelled, ctaken>>

devVars == <<epRegistered, epEver, unregCount, volume_listener, devState, regPc,
             regNew, vIt, vqueue, vtasks, vreceived, vended, vcalls, vLastCall,
             crashed, vpending, vtaken, vcancelled, vctaken>>

obsVars == <<api, lastClose, tried, cbSawFull, sendSawClosed, invoked>>

muteVars == <<mute, tgPc, tgCur, tgHist>>

comVars == <<coInits, coUninits, aelState, volume_listeners, aelRegistered>>

\* what the steps of the event bridge leave alone
sideVars == <<regSnap, muteVars, comVars>>

vars == <<collVars, devVars, obsVars, sideVars>>

\* ------------------------------------------------------------ conversions
\* A wide string is a sequence of UTF-16 code units; three classes of unit
\* are told apart: "a" a BMP scalar, "H" a high surrogate, "L" a low one.
RawIds == { <<"a">>, <<"H", "L">>, <<"H">>, <<"L", "a">> }

\* String::from_utf16: a high surrogate must be followed by a low one and
\* becomes one supplementary character with it; a lone surrogate is an error.
RECURSIVE FromUtf16(_)
FromUtf16(w) ==
    IF w = <<>> THEN [ok |-> TRUE, s |-> <<>>]
    ELSE IF w[1] = "a"
         THEN LET r == FromUtf16(Tail(w))
              IN  [ok |-> r.ok, s |-> IF r.ok THEN <<"a">> \o r.s ELSE <<>>]
    ELSE IF w[1] = "H" /\ Len(w) >= 2 /\ w[2] = "L"
         THEN LET r == FromUtf16(Tail(Tail(w)))
              IN  [ok |-> r.ok, s |-> IF r.ok THEN <<"HL">> \o r.s ELSE <<>>]
    ELSE [ok |-> FALSE, s |-> <<>>]

\* PCWSTR::to_string
PcwstrToString(w) == FromUtf16(w)

\* a conversion that keeps the bits outside the mask (from_bits_retain)
DeviceStateFromU32_retain(v) == v

\* DeviceState::from_bits_truncate over the u32 input: the four defined
\* bits are the low four, so masking is the remainder by mask + 1.
DeviceStateFromU32(v) == v % (DEVICE_STATEMASK_ALL + 1)

\* DataFlow::try_from(i32)  (eRender, eCapture, eAll)
DataFlowTryFrom(v) ==
    CASE v = 0 -> [ok |-> TRUE, v |-> "Render"]
      [] v = 1 -> [ok |-> TRUE, v |-> "Capture"]
      [] v = 2 -> [ok |-> TRUE, v |-> "All"]
      [] OTHER -> [ok |-> FALSE, v |-> "None"]

\* Role::try_from(i32)  (eConsole, eMultimedia, eCommunications)
RoleTryFrom(v) ==
    CASE v = 0 -> [ok |-> TRUE, v |-> "Console"]
      [] v = 1 -> [ok |-> TRUE, v |-> "Multimedia"]
      [] v = 2 -> [ok |-> TRUE, v |-> "Communications"]
      [] OTHER -> [ok |-> FALSE, v |-> "None"]

\* raw parameters the subsystem passes to the callbacks in SpecCb
RawStates == {1, 18, 32}
RawFlows == {0, 2, 3}
RawRoles == {0, 1, 5}

\* the two ids SpecColl uses: one that converts and one that does not
FewIds == { <<"a">>, <<"H">> }

\* a flow the enum defines and one it does not
FewFlows == {0, 3}

\* ------------------------------------------------------------------ items
\* anyhow::Result<DeviceNotificationEvent>; absent fields take the None value
OkItem(kind, id, state, flow, role) ==
    [ok |-> TRUE, kind |-> kind, device_id |-> id, state |-> state,
     dataflow |-> flow, role |-> role, ctx |-> ""]

ErrItem(ctx) ==
    [ok |-> FALSE, kind |-> "Error", device_id |-> <<>>, state |-> -1,
     dataflow |-> "None", role |-> "None", ctx |-> ctx]

\* process() of OnDeviceStateChanged, with the context added on failure
ProcessStateChanged(wid, dwnewstate) ==
    LET d == PcwstrToString(wid)
    IN  IF ~d.ok
        THEN ErrItem("Failed to convert OnDeviceStateChange to expected types")
        ELSE OkItem("StateChanged", d.s, DeviceStateFromU32(dwnewstate), "None", "None")

\* process() of OnDefaultDeviceChanged, with the context added on failure
ProcessDefaultChanged(wid, flow, role) ==
    LET d == PcwstrToString(wid)
        f == DataFlowTryFrom(flow)
        r == RoleTryFrom(role)
    IN  IF ~d.ok \/ ~f.ok \/ ~r.ok
        THEN ErrItem("Failed to convert OnDefaultDeviceChanged to expected types")
        ELSE OkItem("DefaultChanged", d.s, -1, f.v, r.v)

\* ---------------------------------------------------------------- channel
\* The sink object lives while the iterator or the enumerator holds it; it
\* owns the channel's Sender.
SinkAlive(s) == source[s] \/ s \in collRegistered

TasksOf(s) == {t \in tasks : t.ch = s}

\* every Sender (the sink's and the clones moved into tasks) is gone
SendersGone(s) == ~SinkAlive(s) /\ TasksOf(s) = {}

\* every Receiver is gone: the iterator's, and the clone each pending
\* pull holds
ReceiverGone(s) == itState[s] = "dropped" /\ pending[s] = 0

\* task::spawn(async move { channel.send(msg).await })
Spawn(s, item) == tasks \cup {[ch |-> s, seq |-> calls + 1, item |-> item]}

CallRecord(method, ret, submitted, convOk) ==
    [method |-> method, ret |-> ret, submitted |-> submitted, convOk |-> convOk]

NoCall == CallRecord("none", "Ok", 0, TRUE)

\* the subsystem invokes the callbacks of registered sinks
CanCall(s) == s \in collRegistered

\* ------------------------------------------------- collection callbacks
\* OnDeviceStateChanged that sends on the callback thread: it cannot
\* return before the channel has room
OnDeviceStateChanged_sendsInline(s, wid, dwnewstate) ==
    /\ CanCall(s)
    /\ Len(queue[s]) < ChannelCapacity
    /\ LET msg == ProcessStateChanged(wid, dwnewstate)
       IN  /\ queue' = [queue EXCEPT ![s] = Append(@, [seq |-> calls + 1, item |-> msg])]
           /\ lastCall' = CallRecord("OnDeviceStateChanged", "Ok", 1, msg.ok)
    /\ calls' = calls + 1
    /\ UNCHANGED <<collRegistered, itState, source, tasks, received, ended, pending, taken, cancelled, ctaken>>
    /\ UNCHANGED devVars

\* NotificationClient::OnDeviceStateChanged: the conversion result, Ok or
\* Err, is handed to a spawned task and the callback returns Ok.
OnDeviceStateChanged(s, wid, dwnewstate) ==
    /\ CanCall(s)
    /\ LET msg == ProcessStateChanged(wid, dwnewstate)
       IN  /\ tasks' = Spawn(s, msg)
           /\ lastCall' = CallRecord("OnDeviceStateChanged", "Ok", 1, msg.ok)
    /\ calls' = calls + 1
    /\ UNCHANGED <<collRegistered, itState, source, queue, received, ended, pending, taken, cancelled, ctaken>>
    /\ UNCHANGED devVars

\* The `?` on to_string in OnDeviceAdded / OnDeviceRemoved returns the
\* conversion error to the subsystem before anything is spawned.
AddedOrRemoved(method, kind, s, wid) ==
    /\ CanCall(s)
    /\ LET d == PcwstrToString(wid)
       IN  IF ~d.ok
           THEN /\ tasks' = tasks
                /\ lastCall' = CallRecord(method, "Err", 0, FALSE)
           ELSE /\ tasks' = Spawn(s, OkItem(kind, d.s, -1, "None", "None"))
                /\ lastCall' = CallRecord(method, "Ok", 1, TRUE)
    /\ calls' = calls + 1
    /\ UNCHANGED <<collRegistered, itState, source, queue, received, ended, pending, taken, cancelled, ctaken>>
    /\ UNCHANGED devVars

OnDeviceAdded(s, wid) == AddedOrRemoved("OnDeviceAdded", "Added", s, wid)

OnDeviceRemoved(s, wid) == AddedOrRemoved("OnDeviceRemoved", "Removed", s, wid)

\* NotificationClient::OnDefaultDeviceChanged
OnDefaultDeviceChanged(s, flow, role, wid) ==
    /\ CanCall(s)
    /\ LET msg == ProcessDefaultChanged(wid, flow, role)
       IN  /\ tasks' = Spawn(s, msg)
           /\ lastCall' = CallRecord("OnDefaultDeviceChanged", "Ok", 1, msg.ok)
    /\ calls' = calls + 1
    /\ UNCHANGED <<collRegistered, itState, source, queue, received, ended, pending, taken, cancelled, ctaken>>
    /\ UNCHANGED devVars

\* NotificationClient::OnPropertyValueChanged
OnPropertyValueChanged(s) ==
    /\ CanCall(s)
    /\ lastCall' = CallRecord("OnPropertyValueChanged", "Ok", 0, TRUE)
    /\ calls' = calls + 1
    /\ UNCHANGED <<collRegistered, itState, source, queue, tasks, received, ended, pending, taken, cancelled, ctaken>>
    /\ UNCHANGED devVars

\* a send task that reports the closed channel as a failed callback
SendTask_reportsClosed(t) ==
    /\ t \in tasks
    /\ IF ReceiverGone(t.ch)
       THEN /\ queue' = queue
            /\ lastCall' = CallRecord(lastCall.method, "Err", 1, lastCall.convOk)
       ELSE /\ Len(queue[t.ch]) < ChannelCapacity
            /\ queue' = [queue EXCEPT ![t.ch] = Append(@, [seq |-> t.seq, item |-> t.item])]
            /\ lastCall' = lastCall
    /\ tasks' = tasks \ {t}
    /\ UNCHANGED <<collRegistered, itState, source, received, ended, calls, pending, taken, cancelled, ctaken>>
    /\ UNCHANGED devVars

\* a send task that queues its item whether or not the channel has room
SendTask_noLimit(t) ==
    /\ t \in tasks
    /\ IF ReceiverGone(t.ch)
       THEN queue' = queue
       ELSE queue' = [queue EXCEPT ![t.ch] = Append(@, [seq |-> t.seq, item |-> t.item])]
    /\ tasks' = tasks \ {t}
    /\ UNCHANGED <<collRegistered, itState, source, received, ended, calls, lastCall, pending, taken, cancelled, ctaken>>
    /\ UNCHANGED devVars

\* a send task that gives up when it finds the channel full
SendTask_discardsWhenFull(t) ==
    /\ t \in tasks
    /\ IF ReceiverGone(t.ch) \/ Len(queue[t.ch]) >= ChannelCapacity
       THEN queue' = queue
       ELSE queue' = [queue EXCEPT ![t.ch] = Append(@, [seq |-> t.seq, item |-> t.item])]
    /\ tasks' = tasks \ {t}
    /\ UNCHANGED <<collRegistered, itState, source, received, ended, calls, lastCall, pending, taken, cancelled, ctaken>>
    /\ UNCHANGED devVars

\* One spawned task running `_ = channel.send(msg).await`: with every
\* Receiver gone the send fails and the item is discarded; with room in the
\* channel the item is queued; otherwise the task keeps waiting.  Tasks run
\* on the executor's worker threads in no fixed order.
SendTask(t) ==
    /\ t \in tasks
    /\ IF ReceiverGone(t.ch)
       THEN queue' = queue
       ELSE /\ Len(queue[t.ch]) < ChannelCapacity
            /\ queue' = [queue EXCEPT ![t.ch] = Append(@, [seq |-> t.seq, item |-> t.item])]
    /\ tasks' = tasks \ {t}
    /\ UNCHANGED <<collRegistered, itState, source, received, ended, calls, lastCall, pending, taken, cancelled, ctaken>>
    /\ UNCHANGED devVars

\* ------------------------------------------------------- the iterator
Pulled(res, seq, item) == [res |-> res, seq |-> seq, item |-> item]

\* pulls of stream s the consumer has started and not cancelled, their
\* future waiting in recv or holding an item
Awaited(s) == pending[s] - cancelled[s] - Cardinality(ctaken[s])

\* those of them whose future waits in rx.recv()
Waiting(s) == Awaited(s) - Cardinality(taken[s])

\* CollectionEventsIterator::__anext__: _next_event clones the Receiver,
\* moves the clone into the future it hands to the executor and returns
\* the awaitable; the pull is pending from here on, whatever becomes of
\* the iterator.
Anext(s) ==
    /\ itState[s] = "live"
    /\ pending' = [pending EXCEPT ![s] = @ + 1]
    /\ UNCHANGED <<collRegistered, itState, source, queue, tasks, received, ended,
                   calls, lastCall, taken, cancelled, ctaken>>
    /\ UNCHANGED devVars

\* rx.recv() that tears the stream down when it returns an Err item
Recv_errEndsStream(s) ==
    /\ Waiting(s) > 0
    /\ IF queue[s] # <<>>
       THEN LET q == queue[s][1]
            IN  /\ queue' = [queue EXCEPT ![s] = Tail(@)]
                /\ IF q.item.ok
                   THEN /\ taken' = [taken EXCEPT ![s] = @ \cup {q}]
                        /\ UNCHANGED <<received, pending, source, collRegistered>>
                   ELSE /\ received' = [received EXCEPT ![s] =
                               Append(@, Pulled("error", q.seq, q.item))]
                        /\ pending' = [pending EXCEPT ![s] = @ - 1]
                        /\ taken' = taken
                        /\ source' = [source EXCEPT ![s] = FALSE]
                        /\ collRegistered' = collRegistered \ {s}
                /\ ended' = ended
       ELSE /\ SendersGone(s)
            /\ ended' = [ended EXCEPT ![s] = TRUE]
            /\ pending' = [pending EXCEPT ![s] = @ - 1]
            /\ UNCHANGED <<received, queue, taken, source, collRegistered>>
    /\ UNCHANGED <<itState, tasks, calls, lastCall, cancelled, ctaken>>
    /\ UNCHANGED devVars

\* `rx.recv().await` returning in the future of a pull the consumer
\* awaits, on a thread of the executor.  An Ok item is taken from the
\* channel and held by the future, which goes on to wait for the
\* interpreter lock, its Receiver clone with it.  An Err item ends the
\* future at `val?` and fails this pull only.  A closed and drained
\* channel ends it with StopAsyncIteration.  Otherwise the pull keeps
\* waiting.
Recv(s) ==
    /\ Waiting(s) > 0
    /\ IF queue[s] # <<>>
       THEN LET q == queue[s][1]
            IN  /\ queue' = [queue EXCEPT ![s] = Tail(@)]
                /\ IF q.item.ok
                   THEN /\ taken' = [taken EXCEPT ![s] = @ \cup {q}]
                        /\ UNCHANGED <<received, pending>>
                   ELSE /\ received' = [received EXCEPT ![s] =
                               Append(@, Pulled("error", q.seq, q.item))]
                        /\ pending' = [pending EXCEPT ![s] = @ - 1]
                        /\ taken' = taken
                /\ ended' = ended
       ELSE /\ SendersGone(s)
            /\ ended' = [ended EXCEPT ![s] = TRUE]
            /\ pending' = [pending EXCEPT ![s] = @ - 1]
            /\ UNCHANGED <<received, queue, taken>>
    /\ UNCHANGED <<collRegistered, itState, source, tasks, calls, lastCall,
                   cancelled, ctaken>>
    /\ UNCHANGED devVars

\* Python::with_gil in the future of the pull that holds item e: the
\* thread has the interpreter lock, the event object is made, the async
\* block ends and lets its Receiver clone go, and the awaitable resolves
\* to the event.  Futures that wait for the lock get it in no fixed order.
WithGil(s, e) ==
    /\ e \in taken[s]
    /\ taken' = [taken EXCEPT ![s] = @ \ {e}]
    /\ received' = [received EXCEPT ![s] = Append(@, Pulled("event", e.seq, e.item))]
    /\ pending' = [pending EXCEPT ![s] = @ - 1]
    /\ UNCHANGED <<collRegistered, itState, source, queue, tasks, ended, calls,
                   lastCall, cancelled, ctaken>>
    /\ UNCHANGED devVars

\* The consumer cancels the awaitable of a pull it has started.  That is
\* all the consumer does: the future behind the awaitable keeps its
\* Receiver clone, and the item it may hold, until the executor drops it
\* or it has run to its end.
Cancel(s) ==
    /\ \/ /\ Waiting(s) > 0
          /\ cancelled' = [cancelled EXCEPT ![s] = @ + 1]
          /\ UNCHANGED <<taken, ctaken>>
       \/ \E e \in taken[s] :
              /\ taken' = [taken EXCEPT ![s] = @ \ {e}]
              /\ ctaken' = [ctaken EXCEPT ![s] = @ \cup {e}]
              /\ cancelled' = cancelled
    /\ UNCHANGED <<collRegistered, itState, source, queue, tasks, received, ended,
                   calls, lastCall, pending>>
    /\ UNCHANGED devVars

\* The executor reacts to the cancellation while the future still waits
\* in rx.recv(): the future is dropped there, its Receiver clone with it,
\* and the channel is left as it is.
DropFuture(s) ==
    /\ cancelled[s] > 0
    /\ cancelled' = [cancelled EXCEPT ![s] = @ - 1]
    /\ pending' = [pending EXCEPT ![s] = @ - 1]
    /\ UNCHANGED <<collRegistered, itState, source, queue, tasks, received, ended,
                   calls, lastCall, taken, ctaken>>
    /\ UNCHANGED devVars

\* `rx.recv().await` returning in a future whose awaitable was cancelled
\* and which the executor has not dropped.  The item leaves the channel
\* all the same: an Ok item is held while the future waits for the
\* interpreter lock, an Err item ends the future at `val?`, a closed and
\* drained channel ends it.  Nobody awaits what the future ends with.
RecvCancelled(s) ==
    /\ cancelled[s] > 0
    /\ IF queue[s] # <<>>
       THEN LET q == queue[s][1]
            IN  /\ queue' = [queue EXCEPT ![s] = Tail(@)]
                /\ IF q.item.ok
                   THEN /\ ctaken' = [ctaken EXCEPT ![s] = @ \cup {q}]
                        /\ pending' = pending
                   ELSE /\ pending' = [pending EXCEPT ![s] = @ - 1]
                        /\ ctaken' = ctaken
       ELSE /\ SendersGone(s)
            /\ pending' = [pending EXCEPT ![s] = @ - 1]
            /\ UNCHANGED <<queue, ctaken>>
    /\ cancelled' = [cancelled EXCEPT ![s] = @ - 1]
    /\ UNCHANGED <<collRegistered, itState, source, tasks, received, ended, calls,
                   lastCall, taken>>
    /\ UNCHANGED devVars

\* Python::with_gil in a future whose awaitable was cancelled and which
\* holds item e: the event object is made, the async block ends and lets
\* its Receiver clone go, and the result is thrown away.
WithGilCancelled(s, e) ==
    /\ e \in ctaken[s]
    /\ ctaken' = [ctaken EXCEPT ![s] = @ \ {e}]
    /\ pending' = [pending EXCEPT ![s] = @ - 1]
    /\ UNCHANGED <<collRegistered, itState, source, queue, tasks, received, ended,
                   calls, lastCall, taken, cancelled>>
    /\ UNCHANGED devVars

\* DeviceEnumerator::register_notification: resolving the agile reference
\* or the subsystem call may fail, and then nothing is registered.
RegisterOutcomes == {"ok", "resolve_fail", "call_fail"}

RegisterNotification(s, outcome) ==
    IF outcome = "ok" THEN collRegistered \cup {s} ELSE collRegistered

\* unregister_notification that clears every registration
UnregisterNotification_all(s, outcome) ==
    IF outcome = "ok" THEN {} ELSE collRegistered

\* DeviceEnumerator::unregister_notification, same failure modes
UnregisterNotification(s, outcome) ==
    IF outcome = "ok" THEN collRegistered \ {s} ELSE collRegistered

\* PyDeviceCollection::events: bounded(1), a new sink, register, iterator
Events(s, outcome) ==
    /\ itState[s] = "unborn"
    /\ \A r \in DOMAIN itState : r < s => itState[r] # "unborn"
    /\ collRegistered' = RegisterNotification(s, outcome)
    /\ IF outcome = "ok"
       THEN /\ itState' = [itState EXCEPT ![s] = "live"]
            /\ source' = [source EXCEPT ![s] = TRUE]
       ELSE UNCHANGED <<itState, source>>
    /\ UNCHANGED <<queue, tasks, received, ended, calls, lastCall, pending, taken, cancelled, ctaken>>
    /\ UNCHANGED devVars

\* CollectionEventsIterator::close: with a source, unregister it and clear
\* it only when that succeeded; without one, succeed at once.
CloseEffect(s, outcome) ==
    IF source[s]
    THEN /\ collRegistered' = UnregisterNotification(s, outcome)
         /\ source' = [source EXCEPT ![s] = outcome # "ok"]
    ELSE UNCHANGED <<collRegistered, source>>

Close(s, outcome) ==
    /\ itState[s] = "live"
    /\ CloseEffect(s, outcome)
    /\ UNCHANGED <<itState, queue, tasks, received, ended, calls, lastCall, pending, taken, cancelled, ctaken>>
    /\ UNCHANGED devVars

\* Drop for CollectionEventsIterator: close with the result ignored, then
\* the fields go: the source reference and the iterator's Receiver.  The
\* channel keeps what it holds: with no pull pending it is closed now, and
\* an item queued in it stays there for as long as a Sender lives.
Drop(s, outcome) ==
    /\ itState[s] = "live"
    /\ IF source[s]
       THEN collRegistered' = UnregisterNotification(s, outcome)
       ELSE collRegistered' = collRegistered
    /\ source' = [source EXCEPT ![s] = FALSE]
    /\ itState' = [itState EXCEPT ![s] = "dropped"]
    /\ UNCHANGED <<queue, tasks, received, ended, calls, lastCall, pending, taken, cancelled, ctaken>>
    /\ UNCHANGED devVars

InitColl ==
    /\ collRegistered = {}
    /\ itState = [s \in Streams |-> "unborn"]
    /\ source = [s \in Streams |-> FALSE]
    /\ queue = [s \in Streams |-> <<>>]
    /\ tasks = {}
    /\ received = [s \in Streams |-> <<>>]
    /\ ended = [s \in Streams |-> FALSE]
    /\ calls = 0
    /\ lastCall = NoCall
    /\ pending = [s \in Streams |-> 0]
    /\ taken = [s \in Streams |-> {}]
    /\ cancelled = [s \in Streams |-> 0]
    /\ ctaken = [s \in Streams |-> {}]

\* ------------------------------------------------------ device world
\* The sink object lives while the endpoint, the handle's agile reference or
\* the running register_volume_change holds it; it owns the Sender.
VSinkAlive(k) ==
    k \in epRegistered \/ volume_listener = k \/ (regPc # "idle" /\ regNew = k)

VTasksOf(k) == {t \in vtasks : t.ch = k}

VSendersGone(k) == ~VSinkAlive(k) /\ VTasksOf(k) = {}

\* the Receiver is held by events() while it runs, then by the iterator,
\* and a clone of it by each pending pull
VReceiverGone(k) == vIt[k] \in {"dropped", "failed"} /\ vpending[k] = 0

\* AUDIO_VOLUME_NOTIFICATION_DATA as the subsystem passes it: mem is the
\* array really present behind afChannelVolumes.
Notification(n, mem, muted, master) ==
    [nChannels |-> n, mem |-> mem, bMuted |-> muted, fMasterVolume |-> master]

\* the notifications of SpecDev: a well-formed one, and one whose nChannels
\* claims more elements than are present
FewNotifs ==
    { Notification(1, <<5>>, FALSE, 5), Notification(2, <<5>>, TRUE, 6) }

\* what an out-of-bounds element may read as
Garbage == {0, 9}

Malformed(n) == n.nChannels > Len(n.mem)

\* a read that trusts the declared length of afChannelVolumes, [f32; 1]
ReadChannelVolumes_inlineOnly(n, g) == SubSeq(n.mem, 1, 1)

\* slice::from_raw_parts(start, nChannels): the first nChannels elements of
\* the array; elements past its end are whatever the read finds.
ReadChannelVolumes(n, g) ==
    IF n.nChannels <= Len(n.mem)
    THEN SubSeq(n.mem, 1, n.nChannels)
    ELSE n.mem \o [i \in 1..(n.nChannels - Len(n.mem)) |-> g]

\* VolumeChangeEvent built by OnNotify
VolumeEvent(n, g) ==
    [mute |-> n.bMuted, volume |-> n.fMasterVolume,
     channel_volumes |-> ReadChannelVolumes(n, g)]

VCallRecord(ret, malformed, submitted) ==
    [ret |-> ret, malformed |-> malformed, submitted |-> submitted]

\* VolumeCallbackClient::OnNotify: the event is built without any check of
\* nChannels and handed to a spawned task.  Reading past the array is
\* undefined: the process dies, or the read yields garbage.
OnNotify(k, n, crash, g) ==
    /\ k \in epRegistered
    /\ IF Malformed(n) /\ crash
       THEN /\ crashed' = TRUE
            /\ vLastCall' = VCallRecord("none", TRUE, "nothing")
            /\ vtasks' = vtasks
       ELSE /\ vtasks' = vtasks \cup
                   {[ch |-> k, seq |-> vcalls + 1, ev |-> VolumeEvent(n, g)]}
            /\ vLastCall' = VCallRecord("Ok", Malformed(n), "event")
            /\ crashed' = crashed
    /\ vcalls' = vcalls + 1
    /\ UNCHANGED <<epRegistered, epEver, unregCount, volume_listener, devState,
                   regPc, regNew, vIt, vqueue, vreceived, vended, vpending, vtaken, vcancelled, vctaken>>
    /\ UNCHANGED collVars

\* one spawned task running channel.send(event).await
VSendTask(t) ==
    /\ t \in vtasks
    /\ IF VReceiverGone(t.ch)
       THEN vqueue' = vqueue
       ELSE /\ Len(vqueue[t.ch]) < ChannelCapacity
            /\ vqueue' = [vqueue EXCEPT ![t.ch] = Append(@, [seq |-> t.seq, ev |-> t.ev])]
    /\ vtasks' = vtasks \ {t}
    /\ UNCHANGED <<epRegistered, epEver, unregCount, volume_listener, devState,
                   regPc, regNew, vIt, vreceived, vended, vcalls, vLastCall, crashed, vpending, vtaken, vcancelled, vctaken>>
    /\ UNCHANGED collVars

\* volume pulls of stream k the consumer has started and not cancelled
VAwaited(k) == vpending[k] - vcancelled[k] - Cardinality(vctaken[k])

\* those of them whose future waits in rx.recv()
VWaiting(k) == VAwaited(k) - Cardinality(vtaken[k])

\* AudioDeviceEventIterator::__anext__: _next_event clones the Receiver and
\* the device handle into the future it hands to the executor and returns
\* the awaitable.
VAnext(k) ==
    /\ vIt[k] = "live"
    /\ vpending' = [vpending EXCEPT ![k] = @ + 1]
    /\ UNCHANGED <<epRegistered, epEver, unregCount, volume_listener, devState,
                   regPc, regNew, vIt, vqueue, vtasks, vreceived, vended, vcalls,
                   vLastCall, crashed, vtaken, vcancelled, vctaken>>
    /\ UNCHANGED collVars

\* `rx.recv().await` returning in the future of a volume pull the
\* consumer awaits: the event at the head of the channel is taken and
\* held by the future, which goes on to wait for the interpreter lock; a
\* closed and drained channel ends the future with StopAsyncIteration;
\* otherwise the pull keeps waiting.
VRecv(k) ==
    /\ VWaiting(k) > 0
    /\ IF vqueue[k] # <<>>
       THEN /\ vtaken' = [vtaken EXCEPT ![k] = @ \cup {vqueue[k][1]}]
            /\ vqueue' = [vqueue EXCEPT ![k] = Tail(@)]
            /\ UNCHANGED <<vended, vpending>>
       ELSE /\ VSendersGone(k)
            /\ vended' = [vended EXCEPT ![k] = TRUE]
            /\ vpending' = [vpending EXCEPT ![k] = @ - 1]
            /\ UNCHANGED <<vqueue, vtaken>>
    /\ UNCHANGED <<epRegistered, epEver, unregCount, volume_listener, devState,
                   regPc, regNew, vIt, vtasks, vreceived, vcalls, vLastCall, crashed,
                   vcancelled, vctaken>>
    /\ UNCHANGED collVars

\* Python::with_gil in the future of the volume pull that holds event e:
\* the event object is made, the async block ends and lets its Receiver
\* clone go, and the awaitable resolves to the event.
VWithGil(k, e) ==
    /\ e \in vtaken[k]
    /\ vtaken' = [vtaken EXCEPT ![k] = @ \ {e}]
    /\ vreceived' = [vreceived EXCEPT ![k] = Append(@, e)]
    /\ vpending' = [vpending EXCEPT ![k] = @ - 1]
    /\ UNCHANGED <<epRegistered, epEver, unregCount, volume_listener, devState,
                   regPc, regNew, vIt, vqueue, vtasks, vended, vcalls, vLastCall,
                   crashed, vcancelled, vctaken>>
    /\ UNCHANGED collVars

\* The consumer cancels the awaitable of a volume pull it has started;
\* the future behind it keeps its Receiver clone, and the event it may
\* hold, until the executor drops it or it has run to its end.
VCancel(k) ==
    /\ \/ /\ VWaiting(k) > 0
          /\ vcancelled' = [vcancelled EXCEPT ![k] = @ + 1]
          /\ UNCHANGED <<vtaken, vctaken>>
       \/ \E e \in vtaken[k] :
              /\ vtaken' = [vtaken EXCEPT ![k] = @ \ {e}]
              /\ vctaken' = [vctaken EXCEPT ![k] = @ \cup {e}]
              /\ vcancelled' = vcancelled
    /\ UNCHANGED <<epRegistered, epEver, unregCount, volume_listener, devState,
                   regPc, regNew, vIt, vqueue, vtasks, vreceived, vended, vcalls,
                   vLastCall, crashed, vpending>>
    /\ UNCHANGED collVars

\* The executor reacts to the cancellation while the volume future still
\* waits in rx.recv(): the future is dropped there, its Receiver clone
\* and its device handle with it.
VDropFuture(k) ==
    /\ vcancelled[k] > 0
    /\ vcancelled' = [vcancelled EXCEPT ![k] = @ - 1]
    /\ vpending' = [vpending EXCEPT ![k] = @ - 1]
    /\ UNCHANGED <<epRegistered, epEver, unregCount, volume_listener, devState,
                   regPc, regNew, vIt, vqueue, vtasks, vreceived, vended, vcalls,
                   vLastCall, crashed, vtaken, vctaken>>
    /\ UNCHANGED collVars

\* `rx.recv().await` returning in a volume future whose awaitable was
\* cancelled and which the executor has not dropped: the event leaves the
\* channel and is held while the future waits for the interpreter lock,
\* or the closed and drained channel ends the future.
VRecvCancelled(k) ==
    /\ vcancelled[k] > 0
    /\ IF vqueue[k] # <<>>
       THEN /\ vctaken' = [vctaken EXCEPT ![k] = @ \cup {vqueue[k][1]}]
            /\ vqueue' = [vqueue EXCEPT ![k] = Tail(@)]
            /\ vpending' = vpending
       ELSE /\ VSendersGone(k)
            /\ vpending' = [vpending EXCEPT ![k] = @ - 1]
            /\ UNCHANGED <<vqueue, vctaken>>
    /\ vcancelled' = [vcancelled EXCEPT ![k] = @ - 1]
    /\ UNCHANGED <<epRegistered, epEver, unregCount, volume_listener, devState,
                   regPc, regNew, vIt, vtasks, vreceived, vended, vcalls, vLastCall,
                   crashed, vtaken>>
    /\ UNCHANGED collVars

\* Python::with_gil in a volume future whose awaitable was cancelled and
\* which holds event e: the event object is made, the async block ends
\* and lets its Receiver clone go, and the result is thrown away.
VWithGilCancelled(k, e) ==
    /\ e \in vctaken[k]
    /\ vctaken' = [vctaken EXCEPT ![k] = @ \ {e}]
    /\ vpending' = [vpending EXCEPT ![k] = @ - 1]
    /\ UNCHANGED <<epRegistered, epEver, unregCount, volume_listener, devState,
                   regPc, regNew, vIt, vqueue, vtasks, vreceived, vended, vcalls,
                   vLastCall, crashed, vtaken, vcancelled>>
    /\ UNCHANGED collVars

\* outcomes of VolumeCallbackClient::new
CreateOutcomes == {"ok", "activate_fail", "register_fail"}
\* outcomes of resolve + UnregisterControlChangeNotify in stop_listening
StopOutcomes == {"ok", "resolve_fail", "call_fail"}
\* outcomes of AgileReference::new
AgileOutcomes == {"ok", "fail"}

\* AudioDevice::stop_listening: with a listener stored, unregister it when
\* the reference resolves, ignore the call's result, and clear the field.
StopListening(outcome) ==
    IF volume_listener # 0
    THEN /\ epRegistered' = IF outcome = "ok"
                            THEN epRegistered \ {volume_listener}
                            ELSE epRegistered
         /\ unregCount' = IF outcome = "ok"
                          THEN [unregCount EXCEPT ![volume_listener] = @ + 1]
                          ELSE unregCount
         /\ volume_listener' = 0
    ELSE UNCHANGED <<epRegistered, unregCount, volume_listener>>

\* register_volume_change, first statement: VolumeCallbackClient::new
\* activates the endpoint and registers the new sink with it.
RegCreate(k, outcome) ==
    /\ devState = "alive"
    /\ regPc = "idle"
    /\ vIt[k] = "unborn"
    /\ \A j \in DOMAIN vIt : j < k => vIt[j] # "unborn"
    /\ IF outcome = "ok"
       THEN /\ epRegistered' = epRegistered \cup {k}
            /\ epEver' = epEver \cup {k}
            /\ regNew' = k
            /\ regPc' = IF volume_listener # 0 THEN "created" ELSE "stopped"
            /\ vIt' = vIt
       ELSE /\ vIt' = [vIt EXCEPT ![k] = "failed"]
            /\ UNCHANGED <<epRegistered, epEver, regNew, regPc>>
    /\ UNCHANGED <<unregCount, volume_listener, devState, vqueue, vtasks,
                   vreceived, vended, vcalls, vLastCall, crashed, vpending, vtaken, vcancelled, vctaken>>
    /\ UNCHANGED collVars

\* register_volume_change, second statement: a stored listener is stopped
RegStop(outcome) ==
    /\ regPc = "created"
    /\ StopListening(outcome)
    /\ regPc' = "stopped"
    /\ UNCHANGED <<epEver, devState, regNew, vIt, vqueue, vtasks, vreceived,
                   vended, vcalls, vLastCall, crashed, vpending, vtaken, vcancelled, vctaken>>
    /\ UNCHANGED collVars

\* register_volume_change, last statement: the new sink is stored in an
\* agile reference; when that fails the error is returned and events()
\* returns it too, dropping the Receiver.
RegStore(outcome) ==
    /\ regPc = "stopped"
    /\ IF outcome = "ok"
       THEN /\ volume_listener' = regNew
            /\ vIt' = [vIt EXCEPT ![regNew] = "live"]
       ELSE /\ volume_listener' = volume_listener
            /\ vIt' = [vIt EXCEPT ![regNew] = "failed"]
    /\ regPc' = "idle"
    /\ regNew' = 0
    /\ UNCHANGED <<epRegistered, epEver, unregCount, devState, vqueue, vtasks,
                   vreceived, vended, vcalls, vLastCall, crashed, vpending, vtaken, vcancelled, vctaken>>
    /\ UNCHANGED collVars

\* Drop for AudioDeviceEventIterator: stop_listening on the device, then
\* the iterator's Receiver goes; the channel keeps what it holds.
VIterDrop(k, outcome) ==
    /\ vIt[k] = "live"
    /\ regPc = "idle"
    /\ StopListening(outcome)
    /\ vIt' = [vIt EXCEPT ![k] = "dropped"]
    /\ UNCHANGED <<epEver, devState, regPc, regNew, vqueue, vtasks, vreceived,
                   vended, vcalls, vLastCall, crashed, vpending, vtaken, vcancelled, vctaken>>
    /\ UNCHANGED collVars

\* Drop for AudioDevice; every iterator and every pending pull holds the
\* device, so it runs after the last of them is gone.
DeviceDrop(outcome) ==
    /\ devState = "alive"
    /\ regPc = "idle"
    /\ \A k \in DOMAIN vIt : vIt[k] # "live" /\ vpending[k] = 0
    /\ StopListening(outcome)
    /\ devState' = "dropped"
    /\ UNCHANGED <<epEver, regPc, regNew, vIt, vqueue, vtasks, vreceived, vended,
                   vcalls, vLastCall, crashed, vpending, vtaken, vcancelled, vctaken>>
    /\ UNCHANGED collVars

InitDev ==
    /\ epRegistered = {}
    /\ epEver = {}
    /\ unregCount = [k \in Streams |-> 0]
    /\ volume_listener = 0
    /\ devState = "alive"
    /\ regPc = "idle"
    /\ regNew = 0
    /\ vIt = [k \in Streams |-> "unborn"]
    /\ vqueue = [k \in Streams |-> <<>>]
    /\ vtasks = {}
    /\ vreceived = [k \in Streams |-> <<>>]
    /\ vended = [k \in Streams |-> FALSE]
    /\ vcalls = 0
    /\ vLastCall = VCallRecord("none", FALSE, "nothing")
    /\ crashed = FALSE
    /\ vpending = [k \in Streams |-> 0]
    /\ vtaken = [k \in Streams |-> {}]
    /\ vcancelled = [k \in Streams |-> 0]
    /\ vctaken = [k \in Streams |-> {}]

\* --------------------------------------------- request/response calls
\* HRESULTs the binding layer tells apart
ELEMENT_NOT_FOUND == -2147023728
PARAMETER_INCORRECT == -2147024809

\* what a subsystem call may return: S_OK, the two codes above, E_FAIL
Hresults == {0, ELEMENT_NOT_FOUND, PARAMETER_INCORRECT, -2147467259}

\* anyhow::Error by the concrete type it was built from, the type that
\* downcast_ref looks for
AnyhowErr(ty, code) == [ty |-> ty, code |-> code]

RustOk == [ok |-> TRUE, err |-> AnyhowErr("none", 0)]

RustErr(ty, code) == [ok |-> FALSE, err |-> AnyhowErr(ty, code)]

\* outcomes of AudioDevice::new: the property store or GetId call fails, or
\* a string is not valid UTF-16
NewOutcomes == {"ok", "call_fail", "utf16_fail"}

\* AudioDevice::new: `?` on a subsystem call wraps the windows error
\* itself, map_err(WindowsAudioError::from) wraps the UTF-16 error.
AudioDeviceNew(o, h) ==
    CASE o = "ok" -> RustOk
      [] o = "call_fail" -> RustErr("windows::core::Error", h)
      [] OTHER -> RustErr("WindowsAudioError::Utf16StringError", 0)

\* DeviceEnumerator::get_default_device: a failed resolve is wrapped in
\* WindowsAudioError, a failed GetDefaultAudioEndpoint goes through `?`
\* and is wrapped as the windows error it is.
GetDefaultDevice(hResolve, hEndpoint, o, h) ==
    IF hResolve # 0 THEN RustErr("WindowsAudioError::WindowsErr", hResolve)
    ELSE IF hEndpoint # 0 THEN RustErr("windows::core::Error", hEndpoint)
    ELSE AudioDeviceNew(o, h)

\* PyDeviceCollection::_get_default_device: KeyError for a
\* WindowsAudioError::WindowsErr with code ELEMENT_NOT_FOUND, otherwise the
\* anyhow error converted to the generic exception.
PyGetDefaultDevice(hResolve, hEndpoint, o, h) ==
    LET r == GetDefaultDevice(hResolve, hEndpoint, o, h)
    IN  IF r.ok THEN "Ok"
        ELSE IF r.err.ty = "WindowsAudioError::WindowsErr"
                /\ r.err.code = ELEMENT_NOT_FOUND
             THEN "KeyError"
        ELSE "RuntimeError"

\* DeviceEnumerator::get_device: both the failed resolve and the failed
\* GetDevice are wrapped in WindowsAudioError.
GetDevice(hResolve, hDevice, o, h) ==
    IF hResolve # 0 THEN RustErr("WindowsAudioError::WindowsErr", hResolve)
    ELSE IF hDevice # 0 THEN RustErr("WindowsAudioError::WindowsErr", hDevice)
    ELSE AudioDeviceNew(o, h)

\* DevicesDict::__getitem__: KeyError for code PARAMETER_INCORRECT
DevicesDictGetItem(hResolve, hDevice, o, h) ==
    LET r == GetDevice(hResolve, hDevice, o, h)
    IN  IF r.ok THEN "Ok"
        ELSE IF r.err.ty = "WindowsAudioError::WindowsErr"
                /\ r.err.code = PARAMETER_INCORRECT
             THEN "KeyError"
        ELSE "RuntimeError"

\* usize and u32 values, at the model's widths
UsizeValues == 0..(2^UsizeBits - 1)
U32Values == 0..(2^U32Bits - 1)

\* `idx as u32`
AsU32(idx) == idx % (2^U32Bits)

\* no Item call was made
NoItem == -1

\* __getitem__ that narrows the index before comparing it
FilteredGetItem_castFirst(idx, countOk, count, o) ==
    IF ~countOk THEN [ret |-> "RuntimeError", item |-> NoItem]
    ELSE IF AsU32(idx) >= count THEN [ret |-> "IndexError", item |-> NoItem]
    ELSE [ret |-> IF o = "ok" THEN "Ok" ELSE "RuntimeError", item |-> AsU32(idx)]

\* FilteredDeviceCollection::__getitem__: length()? first, then the bound
\* check on the usize index, then DeviceCollection::get(idx as u32), which
\* calls Item(idx) and AudioDevice::new.
FilteredGetItem(idx, countOk, count, o) ==
    IF ~countOk THEN [ret |-> "RuntimeError", item |-> NoItem]
    ELSE IF idx >= count THEN [ret |-> "IndexError", item |-> NoItem]
    ELSE [ret |-> IF o = "ok" THEN "Ok" ELSE "RuntimeError", item |-> AsU32(idx)]

\* Result of register_notification / unregister_notification: `?` on the
\* resolve and on the subsystem call
NotificationResult(outcome) == IF outcome = "ok" THEN "Ok" ELSE "Err"

ApiRecord(op, in, ret, out) == [op |-> op, in |-> in, ret |-> ret, out |-> out]

NoApi == ApiRecord("none", <<>>, "Ok", NoItem)

collRest == <<itState, source, queue, tasks, received, ended, calls, lastCall,
             pending, taken, cancelled, ctaken>>

obsRest == <<lastClose, tried, cbSawFull, sendSawClosed, invoked>>

\* a caller of DeviceEnumerator registers sink s
ApiRegister(s, outcome) ==
    /\ collRegistered' = RegisterNotification(s, outcome)
    /\ api' = ApiRecord("register_notification",
                        [sink |-> s, registered |-> s \in collRegistered],
                        NotificationResult(outcome), NoItem)
    /\ UNCHANGED <<collRest, devVars, obsRest, sideVars>>

\* a caller of DeviceEnumerator unregisters sink s, registered or not
ApiUnregister(s, outcome) ==
    /\ collRegistered' = UnregisterNotification(s, outcome)
    /\ api' = ApiRecord("unregister_notification",
                        [sink |-> s, registered |-> s \in collRegistered],
                        NotificationResult(outcome), NoItem)
    /\ UNCHANGED <<collRest, devVars, obsRest, sideVars>>

\* get_default_output_device / get_default_input_device
ApiGetDefault(hResolve, hEndpoint, o, h) ==
    /\ api' = ApiRecord("get_default",
                        [resolve |-> hResolve, call |-> hEndpoint, new |-> o],
                        PyGetDefaultDevice(hResolve, hEndpoint, o, h), NoItem)
    /\ UNCHANGED <<collVars, devVars, obsRest, sideVars>>

\* devices[key]
ApiGetDevice(hResolve, hDevice, o, h) ==
    /\ api' = ApiRecord("get_device",
                        [resolve |-> hResolve, call |-> hDevice, new |-> o],
                        DevicesDictGetItem(hResolve, hDevice, o, h), NoItem)
    /\ UNCHANGED <<collVars, devVars, obsRest, sideVars>>

\* filtered[idx]
ApiGetItem(idx, countOk, count, o) ==
    /\ LET r == FilteredGetItem(idx, countOk, count, o)
       IN  api' = ApiRecord("getitem",
                            [idx |-> idx, countOk |-> countOk, count |-> count],
                            r.ret, r.item)
    /\ UNCHANGED <<collVars, devVars, obsRest, sideVars>>

\* close() that calls unregister_notification whether or not it has a source
CloseResult_ignoresSource(s, outcome) == IF outcome # "ok" THEN "Err" ELSE "Ok"

\* what CollectionEventsIterator::close returns: the unregister error
\* with context when there is a source and the call fails, Ok otherwise
CloseResult(s, outcome) == IF source[s] /\ outcome # "ok" THEN "Err" ELSE "Ok"

\* close() calls unregister_notification exactly when it has a source
CloseUnregisters(s) == source[s]

\* a close() call, or the close() inside drop, on iterator s
CloseRecord(op, s, outcome) ==
    [op |-> op, it |-> s, hadSource |-> source[s],
     ret |-> CloseResult(s, outcome), unregister |-> CloseUnregisters(s)]

NoClose ==
    [op |-> "none", it |-> 0, hadSource |-> FALSE, ret |-> "Ok",
     unregister |-> FALSE]

\* the sink close() asks the enumerator to unregister
CloseAttempts(s) == IF CloseUnregisters(s) THEN {<<"coll", s>>} ELSE {}

\* the sink stop_listening calls UnregisterControlChangeNotify for: the
\* stored listener, when its agile reference resolves
StopAttempts(outcome) ==
    IF volume_listener # 0 /\ outcome # "resolve_fail"
    THEN {<<"dev", volume_listener>>}
    ELSE {}

\* a sink reference held by the AudioDevice or by the running
\* register_volume_change
VHeld(k) == volume_listener = k \/ (regPc # "idle" /\ regNew = k)

\* ------------------------------------------------------------ toggle_mute
\* outcomes of Activate followed by GetMute, and of SetMute
ReadOutcomes == {"ok", "activate_fail", "getmute_fail"}
WriteOutcomes == {"ok", "fail"}

\* One toggle_mute call as its caller and the endpoint see it: the flag
\* when the call began, the flag GetMute returned (when it returned one),
\* the flag SetMute found, whether SetMute succeeded, whether another
\* client wrote the flag between the read and the write, the result and
\* the flag when the call returned.
ToggleRecord(before, hasRead, read, atWrite, wrote, disturbed, ret, after) ==
    [op |-> "toggle", before |-> before, hasRead |-> hasRead, read |-> read,
     atWrite |-> atWrite, wrote |-> wrote, disturbed |-> disturbed,
     ret |-> ret, after |-> after]

\* a write of the flag by another client of the endpoint, between calls
ExternalRecord(v) ==
    [op |-> "external", before |-> mute, hasRead |-> FALSE, read |-> FALSE,
     atWrite |-> mute, wrote |-> TRUE, disturbed |-> FALSE, ret |-> "Ok",
     after |-> v]

\* the call in progress: the flag at its start and the flag it read
ToggleCall(before, read, disturbed) ==
    [before |-> before, read |-> read, disturbed |-> disturbed]

NoToggle == ToggleCall(FALSE, FALSE, FALSE)

\* toggle_mute that negates the flag as it is when SetMute runs
SetMuteArgument_fresh(current) == ~mute

\* the argument of SetMute: `!current`
SetMuteArgument(current) == ~current

\* toggle_mute up to and including GetMute: `?` on Activate and on GetMute
\* returns the error before anything is written.
ToggleRead(outcome) ==
    /\ devState = "alive"
    /\ tgPc = "idle"
    /\ IF outcome = "ok"
       THEN /\ tgPc' = "read"
            /\ tgCur' = ToggleCall(mute, mute, FALSE)
            /\ tgHist' = tgHist
       ELSE /\ tgHist' = Append(tgHist,
                   ToggleRecord(mute, FALSE, FALSE, mute, FALSE, FALSE, "Err", mute))
            /\ UNCHANGED <<tgPc, tgCur>>
    /\ mute' = mute
    /\ UNCHANGED <<collVars, devVars, obsVars, regSnap, comVars>>

\* toggle_mute from SetMute(!current) to its return
ToggleWrite(outcome) ==
    /\ tgPc = "read"
    /\ mute' = IF outcome = "ok" THEN SetMuteArgument(tgCur.read) ELSE mute
    /\ tgHist' = Append(tgHist,
           ToggleRecord(tgCur.before, TRUE, tgCur.read, mute, outcome = "ok",
                        tgCur.disturbed,
                        IF outcome = "ok" THEN "Ok" ELSE "Err", mute'))
    /\ tgPc' = "idle"
    /\ tgCur' = NoToggle
    /\ UNCHANGED <<collVars, devVars, obsVars, regSnap, comVars>>

\* Another client of the endpoint (the mixer, another process) sets the
\* flag: between two calls, or between the read and the write of one.
ExternalWrite(v) ==
    /\ mute' = v
    /\ IF tgPc = "read"
       THEN /\ tgCur' = ToggleCall(tgCur.before, tgCur.read, TRUE)
            /\ tgHist' = tgHist
       ELSE /\ tgHist' = Append(tgHist, ExternalRecord(v))
            /\ tgCur' = tgCur
    /\ tgPc' = tgPc
    /\ UNCHANGED <<collVars, devVars, obsVars, regSnap, comVars>>

\* ---------------------------------------- AudioEventListener (comapi.rs)
\* How AudioEventListener::new ends: CoInitializeEx fails; the default
\* output device cannot be had; VolumeCallbackClient::new fails before or
\* in RegisterControlChangeNotify; AgileReference::new fails after the sink
\* was registered; or everything succeeds.
AelNewOutcomes ==
    {"ok", "init_fail", "device_fail", "create_fail", "agile_fail"}

\* AudioEventListener::stop: every stored sink whose reference resolves is
\* unregistered, the call's result ignored, and the list is cleared.
AelStopEffect(l, outcome) ==
    /\ aelRegistered' = IF outcome = "ok"
                        THEN aelRegistered \ volume_listeners[l]
                        ELSE aelRegistered
    /\ volume_listeners' = [volume_listeners EXCEPT ![l] = {}]

\* AudioEventListener::new.  After CoInitializeEx has succeeded the object
\* exists, so every later `?` drops it on the way out, and Drop runs stop
\* on the list as it is then and CoUninitialize.
AelNew(l, outcome) ==
    /\ aelState[l] = "unborn"
    /\ \A j \in Listeners : j < l => aelState[j] # "unborn"
    /\ coInits' = IF outcome = "init_fail" THEN coInits
                  ELSE [coInits EXCEPT ![l] = @ + 1]
    /\ aelRegistered' = IF outcome \in {"ok", "agile_fail"}
                        THEN aelRegistered \cup {l} ELSE aelRegistered
    /\ volume_listeners' = IF outcome = "ok"
                           THEN [volume_listeners EXCEPT ![l] = {l}]
                           ELSE volume_listeners
    /\ coUninits' = IF outcome \in {"device_fail", "create_fail", "agile_fail"}
                    THEN [coUninits EXCEPT ![l] = @ + 1] ELSE coUninits
    /\ aelState' = [aelState EXCEPT ![l] = IF outcome = "ok" THEN "alive"
                                           ELSE "failed"]
    /\ UNCHANGED <<collVars, devVars, obsVars, regSnap, muteVars>>

\* AudioEventListener::stop called by the owner
AelStop(l, outcome) ==
    /\ aelState[l] = "alive"
    /\ AelStopEffect(l, outcome)
    /\ UNCHANGED <<coInits, coUninits, aelState>>
    /\ UNCHANGED <<collVars, devVars, obsVars, regSnap, muteVars>>

\* Drop for AudioEventListener: stop, then CoUninitialize
AelDrop(l, outcome) ==
    /\ aelState[l] = "alive"
    /\ AelStopEffect(l, outcome)
    /\ coUninits' = [coUninits EXCEPT ![l] = @ + 1]
    /\ aelState' = [aelState EXCEPT ![l] = "dropped"]
    /\ coInits' = coInits
    /\ UNCHANGED <<collVars, devVars, obsVars, regSnap, muteVars>>

\* the endpoint starts unmuted; a write by another client before the
\* first call gives the other start
InitMute ==
    /\ mute = FALSE
    /\ tgPc = "idle"
    /\ tgCur = NoToggle
    /\ tgHist = <<>>

\* no register_volume_change has begun
NoSnap == [sink |-> 0, listener |-> 0, registered |-> {}]

InitCom ==
    /\ coInits = [l \in Listeners |-> 0]
    /\ coUninits = [l \in Listeners |-> 0]
    /\ aelState = [l \in Listeners |-> "unborn"]
    /\ volume_listeners = [l \in Listeners |-> {}]
    /\ aelRegistered = {}

InitSide == regSnap = NoSnap /\ InitMute /\ InitCom

InitObs ==
    /\ api = NoApi
    /\ lastClose = NoClose
    /\ tried = {}
    /\ cbSawFull = FALSE
    /\ sendSawClosed = FALSE
    /\ invoked = <<>>

Init == InitColl /\ InitDev /\ InitObs /\ InitSide

\* the streams SpecColl starts: two streams of one collection
CollStreams == {1, 2}

\* Lifecycle of two collection streams, each drained by a consumer that
\* has one future alive at a time and awaits or cancels it; the subsystem
\* invokes the callbacks of the registered sinks, a valid id passed.
NextColl ==
    \/ \E s \in CollStreams, o \in RegisterOutcomes :
           Events(s, o) /\ UNCHANGED <<obsVars, sideVars>>
    \/ \E s \in CollStreams, o \in RegisterOutcomes :
           Close(s, o) /\ UNCHANGED <<obsVars, sideVars>>
    \/ \E s \in CollStreams, o \in RegisterOutcomes :
           Drop(s, o) /\ UNCHANGED <<obsVars, sideVars>>
    \/ \E s \in CollStreams :
           /\ pending[s] = 0
           /\ Anext(s) /\ UNCHANGED <<obsVars, sideVars>>
    \/ \E s \in CollStreams : Recv(s) /\ UNCHANGED <<obsVars, sideVars>>
    \/ \E s \in CollStreams : \E e \in taken[s] :
           WithGil(s, e) /\ UNCHANGED <<obsVars, sideVars>>
    \/ \E s \in CollStreams : Cancel(s) /\ UNCHANGED <<obsVars, sideVars>>
    \/ \E s \in CollStreams : DropFuture(s) /\ UNCHANGED <<obsVars, sideVars>>
    \/ \E s \in CollStreams : RecvCancelled(s) /\ UNCHANGED <<obsVars, sideVars>>
    \/ \E s \in CollStreams : \E e \in ctaken[s] :
           WithGilCancelled(s, e) /\ UNCHANGED <<obsVars, sideVars>>
    \/ \E t \in tasks : SendTask(t) /\ UNCHANGED <<obsVars, sideVars>>
    \/ \E s \in CollStreams :
           /\ calls < MaxCalls
           /\ OnDeviceStateChanged(s, <<"a">>, 1) /\ UNCHANGED <<obsVars, sideVars>>

SpecColl == Init /\ [][NextColl]_vars

\* One stream, every callback, raw parameters from the wide sets; the
\* consumer awaits a pull, or cancels it, before it starts the next.
NextCb ==
    \/ \E o \in RegisterOutcomes : Events(1, o) /\ UNCHANGED <<obsVars, sideVars>>
    \/ \E o \in RegisterOutcomes : Close(1, o) /\ UNCHANGED <<obsVars, sideVars>>
    \/ /\ Awaited(1) = 0 /\ pending[1] < MaxPending
       /\ Anext(1) /\ UNCHANGED <<obsVars, sideVars>>
    \/ Recv(1) /\ UNCHANGED <<obsVars, sideVars>>
    \/ \E e \in taken[1] :
           WithGil(1, e) /\ UNCHANGED <<obsVars, sideVars>>
    \/ Cancel(1) /\ UNCHANGED <<obsVars, sideVars>>
    \/ DropFuture(1) /\ UNCHANGED <<obsVars, sideVars>>
    \/ RecvCancelled(1) /\ UNCHANGED <<obsVars, sideVars>>
    \/ \E e \in ctaken[1] :
           WithGilCancelled(1, e) /\ UNCHANGED <<obsVars, sideVars>>
    \/ \E t \in tasks : SendTask(t) /\ UNCHANGED <<obsVars, sideVars>>
    \/ \E w \in RawIds, st \in RawStates :
           calls < MaxCbCalls /\ OnDeviceStateChanged(1, w, st) /\ UNCHANGED <<obsVars, sideVars>>
    \/ \E w \in RawIds :
           calls < MaxCbCalls /\ OnDeviceAdded(1, w) /\ UNCHANGED <<obsVars, sideVars>>
    \/ \E w \in RawIds :
           calls < MaxCbCalls /\ OnDeviceRemoved(1, w) /\ UNCHANGED <<obsVars, sideVars>>
    \/ \E w \in RawIds, f \in RawFlows, r \in RawRoles :
           calls < MaxCbCalls /\ OnDefaultDeviceChanged(1, f, r, w)
                              /\ UNCHANGED <<obsVars, sideVars>>
    \/ calls < MaxCbCalls /\ OnPropertyValueChanged(1) /\ UNCHANGED <<obsVars, sideVars>>

SpecCb == Init /\ [][NextCb]_vars

\* One AudioDevice, its volume streams and the endpoint's notifications.
\* Nothing runs once the process has died.
NextDev ==
    \/ \E k \in Streams, o \in CreateOutcomes :
           ~crashed /\ RegCreate(k, o) /\ UNCHANGED <<obsVars, sideVars>>
    \/ \E o \in StopOutcomes : ~crashed /\ RegStop(o) /\ UNCHANGED <<obsVars, sideVars>>
    \/ \E o \in AgileOutcomes : ~crashed /\ RegStore(o) /\ UNCHANGED <<obsVars, sideVars>>
    \/ \E k \in Streams, o \in StopOutcomes :
           ~crashed /\ VIterDrop(k, o) /\ UNCHANGED <<obsVars, sideVars>>
    \/ \E o \in StopOutcomes : ~crashed /\ DeviceDrop(o) /\ UNCHANGED <<obsVars, sideVars>>
    \/ \E k \in Streams :
           /\ ~crashed /\ vpending[k] = 0
           /\ VAnext(k) /\ UNCHANGED <<obsVars, sideVars>>
    \/ \E k \in Streams : ~crashed /\ VRecv(k) /\ UNCHANGED <<obsVars, sideVars>>
    \/ \E k \in Streams : \E e \in vtaken[k] :
           ~crashed /\ VWithGil(k, e) /\ UNCHANGED <<obsVars, sideVars>>
    \/ \E k \in Streams : ~crashed /\ VCancel(k) /\ UNCHANGED <<obsVars, sideVars>>
    \/ \E k \in Streams : ~crashed /\ VDropFuture(k) /\ UNCHANGED <<obsVars, sideVars>>
    \/ \E k \in Streams : ~crashed /\ VRecvCancelled(k) /\ UNCHANGED <<obsVars, sideVars>>
    \/ \E k \in Streams : \E e \in vctaken[k] :
           ~crashed /\ VWithGilCancelled(k, e) /\ UNCHANGED <<obsVars, sideVars>>
    \/ \E t \in vtasks : ~crashed /\ VSendTask(t) /\ UNCHANGED <<obsVars, sideVars>>
    \/ \E k \in Streams, n \in FewNotifs, c \in BOOLEAN, g \in Garbage :
           ~crashed /\ vcalls < MaxCalls /\ OnNotify(k, n, c, g)
                    /\ UNCHANGED <<obsVars, sideVars>>

SpecDev == Init /\ [][NextDev]_vars

\* a get_default, devices[key] or filtered[idx] call has been made
Looked == api.op \in {"get_default", "get_device", "getitem"}

\* The request/response calls, with every result the subsystem may give.
\* The lookups do not depend on what was called before, so a behaviour
\* makes one of them.
NextApi ==
    \/ \E s \in Streams, o \in RegisterOutcomes : ApiRegister(s, o)
    \/ \E s \in Streams, o \in RegisterOutcomes : ApiUnregister(s, o)
    \/ \E hr, he, h \in Hresults, o \in NewOutcomes :
           ~Looked /\ ApiGetDefault(hr, he, o, h)
    \/ \E hr, hd, h \in Hresults, o \in NewOutcomes :
           ~Looked /\ ApiGetDevice(hr, hd, o, h)
    \/ \E idx \in UsizeValues, c \in U32Values, cok \in BOOLEAN,
          o \in NewOutcomes : ~Looked /\ ApiGetItem(idx, cok, c, o)

SpecApi == Init /\ [][NextApi]_vars

\* close() with its result and its unregister attempt observed
TearClose(s, o) ==
    /\ Close(s, o)
    /\ lastClose' = CloseRecord("close", s, o)
    /\ tried' = tried \cup CloseAttempts(s)
    /\ UNCHANGED <<api, cbSawFull, sendSawClosed, invoked>>
    /\ UNCHANGED sideVars

\* drop of the collection iterator, observed the same way
TearDrop(s, o) ==
    /\ Drop(s, o)
    /\ lastClose' = CloseRecord("drop", s, o)
    /\ tried' = tried \cup CloseAttempts(s)
    /\ UNCHANGED <<api, cbSawFull, sendSawClosed, invoked>>
    /\ UNCHANGED sideVars

\* a device step that runs stop_listening, with its attempt observed
TearStop(outcome, A) ==
    /\ A
    /\ tried' = tried \cup StopAttempts(outcome)
    /\ UNCHANGED <<api, lastClose, cbSawFull, sendSawClosed, invoked>>
    /\ UNCHANGED sideVars

\* The teardown paths.  A behaviour stays in one world: the collection
\* steps need the device untouched and the device steps the collection.
NextTear ==
    \/ \E s \in Streams, o \in RegisterOutcomes :
           InitDev /\ Events(s, o) /\ UNCHANGED <<obsVars, sideVars>>
    \/ \E s \in Streams, o \in RegisterOutcomes : InitDev /\ TearClose(s, o)
    \/ \E s \in Streams, o \in RegisterOutcomes : InitDev /\ TearDrop(s, o)
    \/ \E k \in Streams, o \in CreateOutcomes :
           InitColl /\ RegCreate(k, o) /\ UNCHANGED <<obsVars, sideVars>>
    \/ \E o \in StopOutcomes : InitColl /\ TearStop(o, RegStop(o))
    \/ \E o \in AgileOutcomes : InitColl /\ RegStore(o) /\ UNCHANGED <<obsVars, sideVars>>
    \/ \E k \in Streams, o \in StopOutcomes : InitColl /\ TearStop(o, VIterDrop(k, o))
    \/ \E o \in StopOutcomes : InitColl /\ TearStop(o, DeviceDrop(o))

SpecTear == Init /\ [][NextTear]_vars

\* a callback of collection sink s, observed: was its channel full
BridgeCallback(s, A) ==
    /\ A
    /\ cbSawFull' = (Len(queue[s]) = ChannelCapacity)
    /\ UNCHANGED <<api, lastClose, tried, sendSawClosed, invoked>>
    /\ UNCHANGED sideVars

\* OnNotify of volume sink k, observed the same way
BridgeNotify(k, A) ==
    /\ A
    /\ cbSawFull' = (Len(vqueue[k]) = ChannelCapacity)
    /\ UNCHANGED <<api, lastClose, tried, sendSawClosed, invoked>>
    /\ UNCHANGED sideVars

\* a send task finishing, observed: did it find the channel closed
BridgeSend(closed, A) ==
    /\ A
    /\ sendSawClosed' = closed
    /\ UNCHANGED <<api, lastClose, tried, cbSawFull, invoked>>
    /\ UNCHANGED sideVars

\* the one well-formed notification of FewNotifs
GoodNotifs == {n \in FewNotifs : ~Malformed(n)}

\* Callbacks, send tasks and pulls of one stream: the collection stream
\* with state changes of a valid and of an invalid id, or the device's
\* volume stream with well-formed notifications.  A consumer awaits a
\* pull, or cancels it, before it starts the next, and has up to
\* MaxPending futures alive.
NextBridge ==
    \/ \E o \in RegisterOutcomes : InitDev /\ Events(1, o) /\ UNCHANGED <<obsVars, sideVars>>
    \/ \E o \in RegisterOutcomes : InitDev /\ Close(1, o) /\ UNCHANGED <<obsVars, sideVars>>
    \/ \E o \in RegisterOutcomes : InitDev /\ Drop(1, o) /\ UNCHANGED <<obsVars, sideVars>>
    \/ /\ InitDev /\ Awaited(1) = 0 /\ pending[1] < MaxPending
       /\ Anext(1) /\ UNCHANGED <<obsVars, sideVars>>
    \/ InitDev /\ Recv(1) /\ UNCHANGED <<obsVars, sideVars>>
    \/ \E e \in taken[1] :
           InitDev /\ WithGil(1, e) /\ UNCHANGED <<obsVars, sideVars>>
    \/ InitDev /\ Cancel(1) /\ UNCHANGED <<obsVars, sideVars>>
    \/ InitDev /\ DropFuture(1) /\ UNCHANGED <<obsVars, sideVars>>
    \/ InitDev /\ RecvCancelled(1) /\ UNCHANGED <<obsVars, sideVars>>
    \/ \E e \in ctaken[1] :
           InitDev /\ WithGilCancelled(1, e) /\ UNCHANGED <<obsVars, sideVars>>
    \/ \E t \in tasks : InitDev /\ BridgeSend(ReceiverGone(t.ch), SendTask(t))
    \/ \E w \in FewIds :
           /\ InitDev /\ calls < MaxCalls
           /\ BridgeCallback(1, OnDeviceStateChanged(1, w, 1))
    \/ \E o \in CreateOutcomes :
           InitColl /\ RegCreate(1, o) /\ UNCHANGED <<obsVars, sideVars>>
    \/ \E o \in AgileOutcomes : InitColl /\ RegStore(o) /\ UNCHANGED <<obsVars, sideVars>>
    \/ \E o \in StopOutcomes :
           InitColl /\ VIterDrop(1, o) /\ UNCHANGED <<obsVars, sideVars>>
    \/ \E o \in StopOutcomes : InitColl /\ DeviceDrop(o) /\ UNCHANGED <<obsVars, sideVars>>
    \/ /\ InitColl /\ VAwaited(1) = 0 /\ vpending[1] < MaxPending
       /\ VAnext(1) /\ UNCHANGED <<obsVars, sideVars>>
    \/ InitColl /\ VRecv(1) /\ UNCHANGED <<obsVars, sideVars>>
    \/ \E e \in vtaken[1] :
           InitColl /\ VWithGil(1, e) /\ UNCHANGED <<obsVars, sideVars>>
    \/ InitColl /\ VCancel(1) /\ UNCHANGED <<obsVars, sideVars>>
    \/ InitColl /\ VDropFuture(1) /\ UNCHANGED <<obsVars, sideVars>>
    \/ InitColl /\ VRecvCancelled(1) /\ UNCHANGED <<obsVars, sideVars>>
    \/ \E e \in vctaken[1] :
           InitColl /\ VWithGilCancelled(1, e) /\ UNCHANGED <<obsVars, sideVars>>
    \/ \E t \in vtasks : InitColl /\ BridgeSend(VReceiverGone(t.ch), VSendTask(t))
    \/ \E n \in GoodNotifs :
           /\ InitColl /\ vcalls < MaxCalls
           /\ BridgeNotify(1, OnNotify(1, n, FALSE, 0))

SpecBridge == Init /\ [][NextBridge]_vars

\* The callbacks against a slow consumer: the collection stream with
\* every callback of its sink, or the device's volume stream with
\* well-formed notifications.  A consumer has one future alive at a
\* time, when it pulls at all.
NextBusy ==
    \/ \E o \in RegisterOutcomes : InitDev /\ Events(1, o) /\ UNCHANGED <<obsVars, sideVars>>
    \/ \E o \in RegisterOutcomes : InitDev /\ Close(1, o) /\ UNCHANGED <<obsVars, sideVars>>
    \/ \E o \in RegisterOutcomes : InitDev /\ Drop(1, o) /\ UNCHANGED <<obsVars, sideVars>>
    \/ /\ InitDev /\ pending[1] = 0
       /\ Anext(1) /\ UNCHANGED <<obsVars, sideVars>>
    \/ InitDev /\ Recv(1) /\ UNCHANGED <<obsVars, sideVars>>
    \/ \E e \in taken[1] :
           InitDev /\ WithGil(1, e) /\ UNCHANGED <<obsVars, sideVars>>
    \/ InitDev /\ Cancel(1) /\ UNCHANGED <<obsVars, sideVars>>
    \/ InitDev /\ DropFuture(1) /\ UNCHANGED <<obsVars, sideVars>>
    \/ InitDev /\ RecvCancelled(1) /\ UNCHANGED <<obsVars, sideVars>>
    \/ \E e \in ctaken[1] :
           InitDev /\ WithGilCancelled(1, e) /\ UNCHANGED <<obsVars, sideVars>>
    \/ \E t \in tasks : InitDev /\ BridgeSend(ReceiverGone(t.ch), SendTask(t))
    \/ \E w \in FewIds :
           /\ InitDev /\ calls < MaxCalls
           /\ BridgeCallback(1, OnDeviceStateChanged(1, w, 1))
    \/ \E w \in FewIds :
           /\ InitDev /\ calls < MaxCalls
           /\ BridgeCallback(1, OnDeviceAdded(1, w))
    \/ \E w \in FewIds :
           /\ InitDev /\ calls < MaxCalls
           /\ BridgeCallback(1, OnDeviceRemoved(1, w))
    \/ \E w \in FewIds, f \in FewFlows :
           /\ InitDev /\ calls < MaxCalls
           /\ BridgeCallback(1, OnDefaultDeviceChanged(1, f, 0, w))
    \/ /\ InitDev /\ calls < MaxCalls
       /\ BridgeCallback(1, OnPropertyValueChanged(1))
    \/ \E o \in CreateOutcomes :
           InitColl /\ RegCreate(1, o) /\ UNCHANGED <<obsVars, sideVars>>
    \/ \E o \in AgileOutcomes : InitColl /\ RegStore(o) /\ UNCHANGED <<obsVars, sideVars>>
    \/ \E o \in StopOutcomes :
           InitColl /\ VIterDrop(1, o) /\ UNCHANGED <<obsVars, sideVars>>
    \/ \E o \in StopOutcomes : InitColl /\ DeviceDrop(o) /\ UNCHANGED <<obsVars, sideVars>>
    \/ /\ InitColl /\ vpending[1] = 0
       /\ VAnext(1) /\ UNCHANGED <<obsVars, sideVars>>
    \/ InitColl /\ VRecv(1) /\ UNCHANGED <<obsVars, sideVars>>
    \/ \E e \in vtaken[1] :
           InitColl /\ VWithGil(1, e) /\ UNCHANGED <<obsVars, sideVars>>
    \/ InitColl /\ VCancel(1) /\ UNCHANGED <<obsVars, sideVars>>
    \/ InitColl /\ VDropFuture(1) /\ UNCHANGED <<obsVars, sideVars>>
    \/ InitColl /\ VRecvCancelled(1) /\ UNCHANGED <<obsVars, sideVars>>
    \/ \E e \in vctaken[1] :
           InitColl /\ VWithGilCancelled(1, e) /\ UNCHANGED <<obsVars, sideVars>>
    \/ \E t \in vtasks : InitColl /\ BridgeSend(VReceiverGone(t.ch), VSendTask(t))
    \/ \E n \in GoodNotifs :
           /\ InitColl /\ vcalls < MaxCalls
           /\ BridgeNotify(1, OnNotify(1, n, FALSE, 0))

SpecBusy == Init /\ [][NextBusy]_vars

\* One collection stream, or the device's volume streams with their
\* replacement, drained by consumers that cancel no pull.
NextLive ==
    \/ \E o \in RegisterOutcomes : InitDev /\ Events(1, o) /\ UNCHANGED <<obsVars, sideVars>>
    \/ \E o \in RegisterOutcomes : InitDev /\ Close(1, o) /\ UNCHANGED <<obsVars, sideVars>>
    \/ \E o \in RegisterOutcomes : InitDev /\ Drop(1, o) /\ UNCHANGED <<obsVars, sideVars>>
    \/ InitDev /\ pending[1] = 0 /\ Anext(1) /\ UNCHANGED <<obsVars, sideVars>>
    \/ InitDev /\ Recv(1) /\ UNCHANGED <<obsVars, sideVars>>
    \/ \E e \in taken[1] :
           InitDev /\ WithGil(1, e) /\ UNCHANGED <<obsVars, sideVars>>
    \/ \E t \in tasks : InitDev /\ SendTask(t) /\ UNCHANGED <<obsVars, sideVars>>
    \/ \E w \in FewIds :
           /\ InitDev /\ calls < MaxCalls
           /\ OnDeviceStateChanged(1, w, 1) /\ UNCHANGED <<obsVars, sideVars>>
    \/ \E k \in Streams, o \in CreateOutcomes :
           InitColl /\ RegCreate(k, o) /\ UNCHANGED <<obsVars, sideVars>>
    \/ \E o \in StopOutcomes : InitColl /\ RegStop(o) /\ UNCHANGED <<obsVars, sideVars>>
    \/ \E o \in AgileOutcomes : InitColl /\ RegStore(o) /\ UNCHANGED <<obsVars, sideVars>>
    \/ \E k \in Streams, o \in StopOutcomes :
           InitColl /\ VIterDrop(k, o) /\ UNCHANGED <<obsVars, sideVars>>
    \/ \E o \in StopOutcomes : InitColl /\ DeviceDrop(o) /\ UNCHANGED <<obsVars, sideVars>>
    \/ \E k \in Streams :
           InitColl /\ vpending[k] = 0 /\ VAnext(k) /\ UNCHANGED <<obsVars, sideVars>>
    \/ \E k \in Streams : InitColl /\ VRecv(k) /\ UNCHANGED <<obsVars, sideVars>>
    \/ \E k \in Streams : \E e \in vtaken[k] :
           InitColl /\ VWithGil(k, e) /\ UNCHANGED <<obsVars, sideVars>>
    \/ \E t \in vtasks : InitColl /\ VSendTask(t) /\ UNCHANGED <<obsVars, sideVars>>
    \/ \E k \in Streams, n \in GoodNotifs :
           /\ InitColl /\ vcalls < MaxNotifs
           /\ OnNotify(k, n, FALSE, 0) /\ UNCHANGED <<obsVars, sideVars>>

\* The executor runs every spawned send task that can proceed, a future
\* that waits for the interpreter lock gets it, and every consumer keeps
\* pulling: it starts a pull whenever it has none pending, and a pull
\* that can go on does go on.
FairLive ==
    /\ WF_vars(\E t \in tasks : SendTask(t) /\ UNCHANGED <<obsVars, sideVars>>)
    /\ WF_vars(pending[1] = 0 /\ Anext(1) /\ UNCHANGED <<obsVars, sideVars>>)
    /\ WF_vars(Recv(1) /\ UNCHANGED <<obsVars, sideVars>>)
    /\ WF_vars(\E e \in taken[1] :
              WithGil(1, e) /\ UNCHANGED <<obsVars, sideVars>>)
    /\ WF_vars(\E t \in vtasks : VSendTask(t) /\ UNCHANGED <<obsVars, sideVars>>)
    /\ \A k \in Streams :
          WF_vars(vpending[k] = 0 /\ VAnext(k) /\ UNCHANGED <<obsVars, sideVars>>)
    /\ \A k \in Streams : WF_vars(VRecv(k) /\ UNCHANGED <<obsVars, sideVars>>)
    /\ \A k \in Streams :
          WF_vars(\E e \in vtaken[k] : VWithGil(k, e) /\ UNCHANGED <<obsVars, sideVars>>)

SpecLive == Init /\ [][NextLive]_vars /\ FairLive

\* raw parameters of one callback invocation; a callback leaves the
\* parameters it does not take at NoParam
NoParam == -1

Invocation(method, wid, state, flow, role) ==
    [method |-> method, wid |-> wid, state |-> state, flow |-> flow, role |-> role]

\* a callback step with its raw parameters recorded
Deliver(A, inv) ==
    /\ A
    /\ invoked' = Append(invoked, inv)
    /\ UNCHANGED <<api, lastClose, tried, cbSawFull, sendSawClosed>>
    /\ UNCHANGED sideVars

\* raw parameters of SpecDeliver: an id that converts, a surrogate pair,
\* and one that does not; a state with and without
\* undefined bits; a flow and a role inside and outside the enum
DeliverIds == { <<"H", "L">>, <<"H">> }
DeliverStates == {1, 18}
DeliverFlows == {0, 3}
DeliverRoles == {0, 1}

\* From<DeviceNotificationEvent> for PyDeviceCollectionEvent
PyDeviceCollectionEventFrom(item) ==
    [kind |-> CASE item.kind = "StateChanged" -> "STATE_CHANGED"
                [] item.kind = "DefaultChanged" -> "DEFAULT_CHANGED"
                [] item.kind = "Added" -> "ADDED"
                [] item.kind = "Removed" -> "REMOVED",
     device_id |-> item.device_id,
     state |-> IF item.kind = "StateChanged" THEN item.state ELSE NoParam,
     dataflow |-> IF item.kind = "DefaultChanged" THEN item.dataflow ELSE "None",
     role |-> IF item.kind = "DefaultChanged" THEN item.role ELSE "None"]

\* One collection stream that stays registered and whose consumer stays:
\* every callback, its raw parameters recorded.
NextDeliver ==
    \/ \E o \in RegisterOutcomes : Events(1, o) /\ UNCHANGED <<obsVars, sideVars>>
    \/ pending[1] = 0 /\ Anext(1) /\ UNCHANGED <<obsVars, sideVars>>
    \/ Recv(1) /\ UNCHANGED <<obsVars, sideVars>>
    \/ \E e \in taken[1] :
           WithGil(1, e) /\ UNCHANGED <<obsVars, sideVars>>
    \/ \E t \in tasks : SendTask(t) /\ UNCHANGED <<obsVars, sideVars>>
    \/ \E w \in DeliverIds, st \in DeliverStates :
           /\ calls < MaxCbCalls
           /\ Deliver(OnDeviceStateChanged(1, w, st),
                      Invocation("OnDeviceStateChanged", w, st, NoParam, NoParam))
    \/ \E w \in DeliverIds :
           /\ calls < MaxCbCalls
           /\ Deliver(OnDeviceAdded(1, w),
                      Invocation("OnDeviceAdded", w, NoParam, NoParam, NoParam))
    \/ \E w \in DeliverIds :
           /\ calls < MaxCbCalls
           /\ Deliver(OnDeviceRemoved(1, w),
                      Invocation("OnDeviceRemoved", w, NoParam, NoParam, NoParam))
    \/ \E w \in DeliverIds, f \in DeliverFlows, r \in DeliverRoles :
           /\ calls < MaxCbCalls
           /\ Deliver(OnDefaultDeviceChanged(1, f, r, w),
                      Invocation("OnDefaultDeviceChanged", w, NoParam, f, r))
    \/ /\ calls < MaxCbCalls
       /\ Deliver(OnPropertyValueChanged(1),
                  Invocation("OnPropertyValueChanged", <<>>, NoParam, NoParam, NoParam))

\* the executor runs the send tasks, a future that waits for the
\* interpreter lock gets it, and the consumer keeps pulling and cancels
\* no pull
FairDeliver ==
    /\ WF_vars(\E t \in tasks : SendTask(t) /\ UNCHANGED <<obsVars, sideVars>>)
    /\ WF_vars(pending[1] = 0 /\ Anext(1) /\ UNCHANGED <<obsVars, sideVars>>)
    /\ WF_vars(Recv(1) /\ UNCHANGED <<obsVars, sideVars>>)
    /\ WF_vars(\E e \in taken[1] :
              WithGil(1, e) /\ UNCHANGED <<obsVars, sideVars>>)

SpecDeliver == Init /\ [][NextDeliver]_vars /\ FairDeliver

\* toggle_mute calls on the device and writes of the flag by other
\* clients of the endpoint, in every interleaving.
NextMute ==
    \/ \E o \in ReadOutcomes : Len(tgHist) < MaxMuteOps /\ ToggleRead(o)
    \/ \E o \in WriteOutcomes : ToggleWrite(o)
    \/ \E v \in BOOLEAN :
           /\ Len(tgHist) < MaxMuteOps /\ ~tgCur.disturbed
           /\ ExternalWrite(v)

SpecMute == Init /\ [][NextMute]_vars


\* The top-level listeners of comapi.rs: creation with every way new()
\* can end, stop, and drop.
NextCom ==
    \/ \E l \in Listeners, o \in AelNewOutcomes : AelNew(l, o)
    \/ \E l \in Listeners, o \in StopOutcomes : AelStop(l, o)
    \/ \E l \in Listeners, o \in StopOutcomes : AelDrop(l, o)

SpecCom == Init /\ [][NextCom]_vars

\* notifications of SpecVol: none, one, two and three channels announced
\* and present, and one announcing more channels than are present; the
\* declared array of one element is always there
WideNotifs ==
    { Notification(0, <<4>>, FALSE, 3), Notification(1, <<5>>, TRUE, 5),
      Notification(2, <<5, 7>>, FALSE, 6), Notification(3, <<5, 7, 8>>, TRUE, 7),
      Notification(2, <<5>>, TRUE, 6) }

\* One volume stream and the endpoint's notifications, each recorded as
\* the subsystem passed it.
NextVol ==
    \/ \E o \in CreateOutcomes :
           ~crashed /\ RegCreate(1, o) /\ UNCHANGED <<obsVars, sideVars>>
    \/ \E o \in AgileOutcomes :
           ~crashed /\ RegStore(o) /\ UNCHANGED <<obsVars, sideVars>>
    \/ ~crashed /\ vpending[1] < MaxPending /\ VAnext(1) /\ UNCHANGED <<obsVars, sideVars>>
    \/ ~crashed /\ VRecv(1) /\ UNCHANGED <<obsVars, sideVars>>
    \/ \E e \in vtaken[1] :
           ~crashed /\ VWithGil(1, e) /\ UNCHANGED <<obsVars, sideVars>>
    \/ ~crashed /\ VCancel(1) /\ UNCHANGED <<obsVars, sideVars>>
    \/ ~crashed /\ VDropFuture(1) /\ UNCHANGED <<obsVars, sideVars>>
    \/ ~crashed /\ VRecvCancelled(1) /\ UNCHANGED <<obsVars, sideVars>>
    \/ \E e \in vctaken[1] :
           ~crashed /\ VWithGilCancelled(1, e) /\ UNCHANGED <<obsVars, sideVars>>
    \/ \E t \in vtasks : ~crashed /\ VSendTask(t) /\ UNCHANGED <<obsVars, sideVars>>
    \/ \E n \in WideNotifs, c \in BOOLEAN, g \in Garbage :
           /\ ~crashed /\ vcalls < MaxCalls
           /\ Deliver(OnNotify(1, n, c, g), n)

SpecVol == Init /\ [][NextVol]_vars

\* the registration state a register_volume_change call for sink k finds
RegSnapshot(k) ==
    [sink |-> k, listener |-> volume_listener, registered |-> epRegistered]

\* register_volume_change begins, the state it finds recorded
SnapCreate(k, o) ==
    /\ RegCreate(k, o)
    /\ regSnap' = RegSnapshot(k)
    /\ UNCHANGED <<obsVars, muteVars, comVars>>

\* The registrations of one AudioDevice: events() calls with every way
\* register_volume_change can end, the drops, and the endpoint's
\* notifications to the registered sinks.
NextReg ==
    \/ \E k \in Streams, o \in CreateOutcomes : SnapCreate(k, o)
    \/ \E o \in StopOutcomes : RegStop(o) /\ UNCHANGED <<obsVars, sideVars>>
    \/ \E o \in AgileOutcomes : RegStore(o) /\ UNCHANGED <<obsVars, sideVars>>
    \/ \E k \in Streams, o \in StopOutcomes :
           VIterDrop(k, o) /\ UNCHANGED <<obsVars, sideVars>>
    \/ \E o \in StopOutcomes : DeviceDrop(o) /\ UNCHANGED <<obsVars, sideVars>>
    \/ \E k \in Streams :
           /\ vpending[k] = 0
           /\ VAnext(k) /\ UNCHANGED <<obsVars, sideVars>>
    \/ \E k \in Streams : VRecv(k) /\ UNCHANGED <<obsVars, sideVars>>
    \/ \E k \in Streams : \E e \in vtaken[k] :
           VWithGil(k, e) /\ UNCHANGED <<obsVars, sideVars>>
    \/ \E k \in Streams : VCancel(k) /\ UNCHANGED <<obsVars, sideVars>>
    \/ \E k \in Streams : VDropFuture(k) /\ UNCHANGED <<obsVars, sideVars>>
    \/ \E k \in Streams : VRecvCancelled(k) /\ UNCHANGED <<obsVars, sideVars>>
    \/ \E k \in Streams : \E e \in vctaken[k] :
           VWithGilCancelled(k, e) /\ UNCHANGED <<obsVars, sideVars>>
    \/ \E t \in vtasks : VSendTask(t) /\ UNCHANGED <<obsVars, sideVars>>
    \/ \E k \in Streams, n \in GoodNotifs :
           /\ vcalls < MaxCalls
           /\ OnNotify(k, n, FALSE, 0) /\ UNCHANGED <<obsVars, sideVars>>

SpecReg == Init /\ [][NextReg]_vars

\* raw parameters of SpecNum: every state value of StateBits bits, and
\* the flow and role values around the three each enum defines
NumStates == 0..(2^StateBits - 1)
NumFlows == -1..3
NumRoles == -1..3

\* One collection stream and the two callbacks that convert numbers, with
\* their raw parameters recorded.  A conversion does not depend on what
\* was converted before, so a behaviour makes one invocation.
NextNum ==
    \/ \E o \in RegisterOutcomes : Events(1, o) /\ UNCHANGED <<obsVars, sideVars>>
    \/ /\ Awaited(1) = 0 /\ pending[1] < MaxPending
       /\ Anext(1) /\ UNCHANGED <<obsVars, sideVars>>
    \/ Recv(1) /\ UNCHANGED <<obsVars, sideVars>>
    \/ \E e \in taken[1] :
           WithGil(1, e) /\ UNCHANGED <<obsVars, sideVars>>
    \/ Cancel(1) /\ UNCHANGED <<obsVars, sideVars>>
    \/ DropFuture(1) /\ UNCHANGED <<obsVars, sideVars>>
    \/ RecvCancelled(1) /\ UNCHANGED <<obsVars, sideVars>>
    \/ \E e \in ctaken[1] :
           WithGilCancelled(1, e) /\ UNCHANGED <<obsVars, sideVars>>
    \/ \E t \in tasks : SendTask(t) /\ UNCHANGED <<obsVars, sideVars>>
    \/ \E w \in FewIds, st \in NumStates :
           /\ invoked = <<>>
           /\ Deliver(OnDeviceStateChanged(1, w, st),
                      Invocation("OnDeviceStateChanged", w, st, NoParam, NoParam))
    \/ \E w \in FewIds, f \in NumFlows, r \in NumRoles :
           /\ invoked = <<>>
           /\ Deliver(OnDefaultDeviceChanged(1, f, r, w),
                      Invocation("OnDefaultDeviceChanged", w, NoParam, f, r))

SpecNum == Init /\ [][NextNum]_vars

\* One stream of each world from its start to its drop, nothing observed:
\* the callbacks, the send tasks and the consumer's pulls, up to
\* MaxPending of them pending at a time.
NextFlow ==
    \/ \E o \in RegisterOutcomes : InitDev /\ Events(1, o) /\ UNCHANGED <<obsVars, sideVars>>
    \/ \E o \in RegisterOutcomes : InitDev /\ Close(1, o) /\ UNCHANGED <<obsVars, sideVars>>
    \/ \E o \in RegisterOutcomes : InitDev /\ Drop(1, o) /\ UNCHANGED <<obsVars, sideVars>>
    \/ InitDev /\ pending[1] < MaxPending /\ Anext(1) /\ UNCHANGED <<obsVars, sideVars>>
    \/ InitDev /\ Recv(1) /\ UNCHANGED <<obsVars, sideVars>>
    \/ \E e \in taken[1] :
           InitDev /\ WithGil(1, e) /\ UNCHANGED <<obsVars, sideVars>>
    \/ \E t \in tasks : InitDev /\ SendTask(t) /\ UNCHANGED <<obsVars, sideVars>>
    \/ \E w \in FewIds :
           /\ InitDev /\ calls < MaxCalls
           /\ OnDeviceStateChanged(1, w, 1) /\ UNCHANGED <<obsVars, sideVars>>
    \/ \E o \in CreateOutcomes :
           InitColl /\ RegCreate(1, o) /\ UNCHANGED <<obsVars, sideVars>>
    \/ \E o \in AgileOutcomes : InitColl /\ RegStore(o) /\ UNCHANGED <<obsVars, sideVars>>
    \/ \E o \in StopOutcomes :
           InitColl /\ VIterDrop(1, o) /\ UNCHANGED <<obsVars, sideVars>>
    \/ \E o \in StopOutcomes : InitColl /\ DeviceDrop(o) /\ UNCHANGED <<obsVars, sideVars>>
    \/ InitColl /\ vpending[1] < MaxPending /\ VAnext(1) /\ UNCHANGED <<obsVars, sideVars>>
    \/ InitColl /\ VRecv(1) /\ UNCHANGED <<obsVars, sideVars>>
    \/ \E e \in vtaken[1] :
           InitColl /\ VWithGil(1, e) /\ UNCHANGED <<obsVars, sideVars>>
    \/ \E t \in vtasks : InitColl /\ VSendTask(t) /\ UNCHANGED <<obsVars, sideVars>>
    \/ \E n \in GoodNotifs :
           /\ InitColl /\ vcalls < MaxCalls
           /\ OnNotify(1, n, FALSE, 0) /\ UNCHANGED <<obsVars, sideVars>>

\* the executor runs the send tasks, a future that waits for the
\* interpreter lock gets it, and both consumers keep pulling and cancel
\* no pull
FairFlow ==
    /\ WF_vars(\E t \in tasks : SendTask(t) /\ UNCHANGED <<obsVars, sideVars>>)
    /\ WF_vars(pending[1] < MaxPending /\ Anext(1) /\ UNCHANGED <<obsVars, sideVars>>)
    /\ WF_vars(Recv(1) /\ UNCHANGED <<obsVars, sideVars>>)
    /\ WF_vars(\E e \in taken[1] :
              WithGil(1, e) /\ UNCHANGED <<obsVars, sideVars>>)
    /\ WF_vars(\E t \in vtasks : VSendTask(t) /\ UNCHANGED <<obsVars, sideVars>>)
    /\ WF_vars(vpending[1] < MaxPending /\ VAnext(1) /\ UNCHANGED <<obsVars, sideVars>>)
    /\ WF_vars(VRecv(1) /\ UNCHANGED <<obsVars, sideVars>>)
    /\ WF_vars(\E e \in vtaken[1] :
              VWithGil(1, e) /\ UNCHANGED <<obsVars, sideVars>>)

SpecFlow == Init /\ [][NextFlow]_vars /\ FairFlow

\* ================================================================ claims

\* seq numbers of a log are strictly increasing
Increasing(log) ==
    \A i, j \in 1..Len(log) : i < j => log[i].seq < log[j].seq

\* C1: of two callback invocations on the same sink, the event of the
\* earlier one is received before the event of the later one, whatever the
\* order in which the spawned send tasks run.
C1_DeliveredInCallbackOrder ==
    /\ \A s \in Streams : Increasing(received[s])
    /\ \A k \in Streams : Increasing(vreceived[k])

\* C2: at most one volume sink created through the AudioDevice is
\* registered with the endpoint, in every state, the states inside
\* register_volume_change included.
C2_AtMostOneVolumeSinkRegistered == Cardinality(epRegistered) <= 1

\* a later events() call on the device has returned an iterator
LaterStreamStarted(k) ==
    \E j \in Streams : j > k /\ vIt[j] \in {"live", "dropped"}

\* C3: once a second events() call on the device has returned, the stream
\* the first call returned hands no further volume event to its consumer.
C3_FirstStreamSilentAfterSecondCall ==
    [][\A k \in Streams :
          LaterStreamStarted(k) => Len(vreceived'[k]) <= Len(vreceived[k])]_vars

\* the last entry of a non-empty log
Last(log) == log[Len(log)]

\* the step appended one entry with result res to the consumer's log of s
Delivers(s, res) ==
    /\ Len(received'[s]) = Len(received[s]) + 1
    /\ Last(received'[s]).res = res

\* C4: once a collection stream has been dropped its sink is no longer
\* registered, whatever the unregister call returned.
C4_NoSinkLeftAfterDrop ==
    \A s \in Streams : itState[s] = "dropped" => s \notin collRegistered

\* C5: once close() has returned Ok, no later pull on the stream delivers
\* an event.
C5_NoDeliveryAfterClose ==
    [][\A s \in Streams :
          itState[s] = "live" /\ ~source[s] => ~Delivers(s, "event")]_vars

\* C6: by the time the AudioDevice has been dropped, every volume sink
\* registered through it has been unregistered exactly once.
C6_EverySinkUnregisteredOnceByDrop ==
    devState = "dropped" => \A k \in epEver : unregCount[k] = 1

\* C7: every notification callback returns success to the subsystem.
C7_CallbackAlwaysReturnsOk == lastCall.ret = "Ok" /\ vLastCall.ret # "Err"

\* C8: a collection callback whose parameters fail conversion submits
\* exactly one Err item.
C8_ConversionFailureSubmitsOneErr == ~lastCall.convOk => lastCall.submitted = 1

\* C9: a pull that meets an Err item reports that one failure and leaves
\* the stream as it was (iterator as it was, source and registrations
\* kept, only that item taken from the channel, the channel no more closed
\* than before, end of stream not signalled, the other futures as they
\* were); an Err item leaves the channel only by such a pull, or by a
\* future whose pull the consumer had cancelled, which reports nothing
\* and changes nothing else of the stream; an Ok item that leaves the
\* channel after a failed pull is taken by a pull's future; and an item
\* the future of an awaited pull has taken is delivered as an event,
\* unless the consumer cancels that pull.
C9_ErrItemFailsOnePullOnly ==
    /\ [][\A s \in Streams :
            Delivers(s, "error") =>
                /\ itState' = itState /\ source' = source
                /\ collRegistered' = collRegistered
                /\ queue'[s] = Tail(queue[s]) /\ tasks' = tasks
                /\ ended' = ended /\ taken' = taken
                /\ cancelled' = cancelled /\ ctaken' = ctaken
                /\ SendersGone(s)' = SendersGone(s)]_vars
    /\ [][\A s \in Streams :
            ( /\ queue[s] # <<>> /\ ~queue[s][1].item.ok
              /\ queue'[s] = Tail(queue[s]) ) =>
                /\ itState' = itState /\ source' = source
                /\ collRegistered' = collRegistered /\ tasks' = tasks
                /\ ended' = ended /\ taken' = taken /\ ctaken' = ctaken
                /\ pending'[s] = pending[s] - 1
                /\ \/ /\ Waiting(s) > 0 /\ cancelled' = cancelled
                      /\ received'[s] = Append(received[s],
                             Pulled("error", queue[s][1].seq, queue[s][1].item))
                   \/ /\ cancelled[s] > 0 /\ cancelled'[s] = cancelled[s] - 1
                      /\ received' = received]_vars
    /\ [][\A s \in Streams :
            ( /\ \E i \in 1..Len(received[s]) : received[s][i].res = "error"
              /\ queue[s] # <<>> /\ queue[s][1].item.ok
              /\ queue'[s] = Tail(queue[s]) ) =>
                \/ /\ Waiting(s) > 0
                   /\ taken'[s] = taken[s] \cup {queue[s][1]}
                   /\ cancelled' = cancelled /\ ctaken' = ctaken
                \/ /\ cancelled[s] > 0 /\ cancelled'[s] = cancelled[s] - 1
                   /\ ctaken'[s] = ctaken[s] \cup {queue[s][1]}
                   /\ taken' = taken]_vars
    /\ [][\A s \in Streams : \A e \in taken[s] :
            e \notin taken'[s] =>
                \/ received'[s] = Append(received[s], Pulled("event", e.seq, e.item))
                \/ /\ ctaken'[s] = ctaken[s] \cup {e}
                   /\ received' = received /\ pending' = pending]_vars

\* a failed pull followed by the delivery of a later notification, on a
\* stream whose sink is still registered
C9_Witness ==
    \E s \in Streams :
        /\ s \in collRegistered /\ source[s]
        /\ Len(received[s]) = 2
        /\ received[s][1].res = "error" /\ received[s][2].res = "event"
        /\ received[s][1].seq < received[s][2].seq

\* C10: a malformed volume notification puts exactly one ConversionFailed
\* item on the stream and does not end it.
C10_MalformedYieldsConversionFailed ==
    /\ ~crashed
    /\ vLastCall.malformed => vLastCall.submitted = "ConversionFailed"

\* C11: unregister_notification on a sink that is not registered (never
\* registered, or unregistered before) returns no error.
C11_UnregisterOfUnknownSinkSucceeds ==
    api.op = "unregister_notification" /\ ~api.in.registered => api.ret = "Ok"

\* C17: get_default raises the missing-key error exactly when the
\* subsystem answers element-not-found for the default endpoint, and the
\* generic error for every other failure.
C17_NoDefaultDeviceIsKeyError ==
    api.op = "get_default" =>
        LET notFound == api.in.resolve = 0 /\ api.in.call = ELEMENT_NOT_FOUND
        IN  /\ notFound => api.ret = "KeyError"
            /\ api.ret = "KeyError" => notFound

\* C18: devices[id] raises the missing-key error exactly when the
\* subsystem answers element-not-found for the id; a malformed id
\* (parameter incorrect) and every other failure raise another error.
C18_UnknownIdIsKeyError ==
    api.op = "get_device" =>
        LET notFound == api.in.resolve = 0 /\ api.in.call = ELEMENT_NOT_FOUND
        IN  /\ notFound => api.ret = "KeyError"
            /\ api.ret = "KeyError" => notFound

\* C19: when the count is available, an index >= count raises the index
\* error without any Item call, and for an index < count Item is called
\* with exactly that index.
C19_IndexCheckedBeforeLookup ==
    api.op = "getitem" /\ api.in.countOk =>
        /\ api.in.idx >= api.in.count => api.ret = "IndexError" /\ api.out = NoItem
        /\ api.in.idx < api.in.count => api.out = api.in.idx /\ api.ret # "IndexError"

\* an index that does not fit a u32, and whose narrowing is below the
\* count, was refused
C19_Witness ==
    /\ api.op = "getitem" /\ api.in.countOk
    /\ api.in.idx >= 2^U32Bits /\ AsU32(api.in.idx) < api.in.count
    /\ api.ret = "IndexError" /\ api.out = NoItem

\* C12: once close() has succeeded, every further close() and the final
\* drop return Ok without an unregister call; the further close() changes
\* nothing of the collection world, and the drop changes neither the
\* registrations nor the send tasks.
C12_CloseIsIdempotent ==
    /\ [](lastClose.op # "none" /\ ~lastClose.hadSource =>
              lastClose.ret = "Ok" /\ ~lastClose.unregister)
    /\ [][\A s \in Streams :
            itState[s] = "live" /\ ~source[s] /\ (\E o \in RegisterOutcomes : Close(s, o))
                => UNCHANGED collVars]_vars
    /\ [][\A s \in Streams :
            itState[s] = "live" /\ ~source[s] /\ (\E o \in RegisterOutcomes : Drop(s, o))
                => UNCHANGED <<collRegistered, source, tasks>>]_vars

\* an iterator was closed and then dropped: the drop's close found no
\* source
C12_Witness ==
    \E s \in Streams :
        /\ itState[s] = "dropped" /\ <<"coll", s>> \in tried
        /\ lastClose.op = "drop" /\ lastClose.it = s /\ ~lastClose.hadSource
        /\ lastClose.ret = "Ok"

\* C16: a sink that is still registered and that its owner no longer
\* holds has had an unregister attempted for it (close() or the drop's
\* close() on a collection iterator, stop_listening on the device).
C16_UnregisterAttemptedBeforeRelease ==
    /\ \A s \in Streams :
          itState[s] # "unborn" /\ s \in collRegistered /\ ~source[s]
              => <<"coll", s>> \in tried
    /\ \A k \in epRegistered : ~VHeld(k) => <<"dev", k>> \in tried

\* C13: a callback never waits for its channel.  In every state,
\* whatever the channel holds and whether or not a consumer pulls, every
\* callback of a registered sink (state changed, added, removed, default
\* changed, property value changed, volume notification) can run to its
\* return; and the step that is a callback returns a result, leaves every
\* channel as it was and hands the item it made, when it made one, to a
\* new send task.
C13_CallbackNeverWaits ==
    /\ [](\A s \in collRegistered :
            /\ \A w \in FewIds :
                  /\ ENABLED (/\ OnDeviceStateChanged(s, w, 1)
                              /\ lastCall'.ret = "Ok" /\ queue' = queue)
                  /\ ENABLED (OnDeviceAdded(s, w) /\ queue' = queue)
                  /\ ENABLED (OnDeviceRemoved(s, w) /\ queue' = queue)
                  /\ \A f \in FewFlows :
                        ENABLED (/\ OnDefaultDeviceChanged(s, f, 0, w)
                                 /\ lastCall'.ret = "Ok" /\ queue' = queue)
            /\ ENABLED (/\ OnPropertyValueChanged(s)
                        /\ lastCall'.ret = "Ok" /\ queue' = queue))
    /\ [](\A k \in epRegistered : \A n \in GoodNotifs :
            ENABLED (/\ OnNotify(k, n, FALSE, 0)
                     /\ vLastCall'.ret = "Ok" /\ vqueue' = vqueue))
    /\ [][calls' # calls =>
            /\ queue' = queue /\ lastCall'.ret \in {"Ok", "Err"}
            /\ tasks \subseteq tasks'
            /\ Cardinality(tasks' \ tasks) = lastCall'.submitted]_vars
    /\ [][vcalls' # vcalls =>
            /\ vqueue' = vqueue /\ vLastCall'.ret = "Ok"
            /\ vtasks \subseteq vtasks'
            /\ Cardinality(vtasks' \ vtasks) = 1]_vars

\* the consumer has received nothing and has no pull pending, the channel
\* is full with the first event, and a default-changed callback that ran
\* against the full channel has returned, its event held by a pending task
C13_Witness ==
    /\ cbSawFull /\ lastCall.ret = "Ok" /\ calls = 2
    /\ lastCall.method = "OnDefaultDeviceChanged"
    /\ received[1] = <<>> /\ pending[1] = 0 /\ Len(queue[1]) = ChannelCapacity
    /\ queue[1][1].seq = 1 /\ \E t \in TasksOf(1) : t.seq = 2

\* C14: a send task that finds every receiver gone just ends: nothing is
\* queued, nothing reaches a consumer, and what the callback returned
\* stays Ok, also for a callback invoked after the receiver went away.
C14_ClosedChannelDropsSilently ==
    /\ [][\A t \in tasks :
            ReceiverGone(t.ch) /\ t \notin tasks' =>
                /\ queue' = queue /\ received' = received /\ ended' = ended
                /\ lastCall' = lastCall]_vars
    /\ [][\A t \in vtasks :
            VReceiverGone(t.ch) /\ t \notin vtasks' =>
                /\ vqueue' = vqueue /\ vreceived' = vreceived /\ vended' = vended
                /\ vLastCall' = vLastCall /\ crashed' = crashed]_vars
    /\ [][calls' # calls => lastCall'.ret = "Ok"]_vars
    /\ [][vcalls' # vcalls => vLastCall'.ret = "Ok"]_vars

\* the iterator was dropped while a callback's send was outstanding, and
\* that send has since found the channel closed
C14_Witness ==
    /\ sendSawClosed /\ itState[1] = "dropped" /\ TasksOf(1) = {}
    /\ calls >= 1 /\ lastCall.ret = "Ok"

\* close() has returned Ok on collection stream s, which is still held
CollTornDown(s) == itState[s] = "live" /\ ~source[s]

\* the device has let go of volume sink k, by stop_listening or by a
\* replacement, while the stream's iterator is still held
VLetGo(k) == vIt[k] = "live" /\ ~VHeld(k)

\* C15: once close() has succeeded on a collection stream, or
\* stop_listening or a replacement has run for a volume stream, the
\* consumer that keeps pulling gets end-of-stream, unless the iterator
\* is dropped and its pending pulls have ended.
C15_EndOfStreamAfterTeardown ==
    /\ CollTornDown(1) ~> (ended[1] \/ ReceiverGone(1))
    /\ \A k \in Streams :
          VLetGo(k) ~> (vended[k] \/ VReceiverGone(k))

\* the callbacks that have an event kind
EventCallbacks ==
    {"OnDeviceStateChanged", "OnDeviceAdded", "OnDeviceRemoved",
     "OnDefaultDeviceChanged"}

\* every parameter the callback converts converts
Converts(inv) ==
    /\ inv.method # "OnPropertyValueChanged" => PcwstrToString(inv.wid).ok
    /\ inv.method = "OnDefaultDeviceChanged" =>
           DataFlowTryFrom(inv.flow).ok /\ RoleTryFrom(inv.role).ok

\* the event the claim expects for an invocation: the decoded id, the
\* state of the invocation, the flow and the role by name
ExpectedEvent(inv) ==
    [kind |-> CASE inv.method = "OnDeviceStateChanged" -> "STATE_CHANGED"
                [] inv.method = "OnDefaultDeviceChanged" -> "DEFAULT_CHANGED"
                [] inv.method = "OnDeviceAdded" -> "ADDED"
                [] inv.method = "OnDeviceRemoved" -> "REMOVED",
     device_id |-> PcwstrToString(inv.wid).s,
     state |-> IF inv.method = "OnDeviceStateChanged" THEN inv.state ELSE NoParam,
     dataflow |-> IF inv.method = "OnDefaultDeviceChanged"
                  THEN DataFlowTryFrom(inv.flow).v ELSE "None",
     role |-> IF inv.method = "OnDefaultDeviceChanged"
              THEN RoleTryFrom(inv.role).v ELSE "None"]

\* positions in the consumer's log that belong to invocation i
ReceivedFor(i) == {j \in 1..Len(received[1]) : received[1][j].seq = i}

\* nothing is invented or duplicated: every pull result belongs to an
\* invocation that was made, at most one to each, and an event carries
\* the fields of its invocation
NothingInvented ==
    /\ \A j \in 1..Len(received[1]) :
          LET e == received[1][j]
          IN  /\ e.seq \in 1..Len(invoked)
              /\ invoked[e.seq].method \in EventCallbacks
              /\ e.res = "event" =>
                    /\ Converts(invoked[e.seq])
                    /\ PyDeviceCollectionEventFrom(e.item) = ExpectedEvent(invoked[e.seq])
              /\ e.res = "error" => ~Converts(invoked[e.seq])
    /\ \A i \in 1..Len(invoked) : Cardinality(ReceivedFor(i)) <= 1

\* C20: every callback invocation whose parameters convert,
\* OnPropertyValueChanged included, leads to exactly one event with the
\* invocation's fields at the consumer that keeps pulling, and nothing is
\* invented or duplicated.
C20_EveryInvocationYieldsOneEvent ==
    /\ []NothingInvented
    /\ \A i \in 1..MaxCbCalls :
          (Len(invoked) >= i /\ Converts(invoked[i]))
              ~> (\E j \in ReceivedFor(i) : received[1][j].res = "event")

\* C21: a toggle_mute call that returns Ok has read the flag and written
\* the negation of what it read, also when another client wrote the flag
\* in between (the last writer wins); undisturbed, it flips the flag, and
\* two undisturbed successful calls in a row restore the flag; a call whose
\* read fails writes nothing, and a call that wrote nothing and was not
\* disturbed leaves the flag as it found it.
C21_ToggleWritesNegationOfRead ==
    /\ \A i \in 1..Len(tgHist) :
          LET c == tgHist[i]
          IN  c.op = "toggle" =>
                /\ c.ret = "Ok" => c.hasRead /\ c.wrote /\ c.after = ~c.read
                /\ c.ret = "Ok" /\ ~c.disturbed => c.after = ~c.before
                /\ ~c.hasRead => c.ret = "Err" /\ ~c.wrote
                /\ ~c.wrote /\ ~c.disturbed => c.after = c.before
    /\ \A i \in 1..(Len(tgHist) - 1) :
          LET c == tgHist[i]
              d == tgHist[i + 1]
          IN  ( /\ c.op = "toggle" /\ c.ret = "Ok" /\ ~c.disturbed
                /\ d.op = "toggle" /\ d.ret = "Ok" /\ ~d.disturbed )
                  => d.after = c.before
    /\ tgPc = "idle" /\ tgHist # <<>> => mute = tgHist[Len(tgHist)].after

\* two undisturbed calls restored the flag, and a third call, with a
\* write of the opposite value by another client between its read and its
\* write, ended with the negation of what it had read
C21_Witness ==
    /\ Len(tgHist) = 3 /\ tgPc = "idle"
    /\ \A i \in 1..3 : tgHist[i].op = "toggle" /\ tgHist[i].ret = "Ok"
    /\ ~tgHist[1].disturbed /\ ~tgHist[2].disturbed
    /\ tgHist[2].after = tgHist[1].before
    /\ tgHist[3].disturbed /\ tgHist[3].atWrite # tgHist[3].read
    /\ mute = ~tgHist[3].read

\* C22: for every AudioEventListener, a successful runtime initialization
\* in new() is matched by exactly one teardown, made when the listener
\* goes (dropped, or new() failing after the initialization) and not
\* before; a failed initialization is followed by no teardown; and when
\* the teardown runs none of the listener's volume sinks is registered.
C22_InitMatchedByOneTeardownAfterUnregister ==
    \A l \in Listeners :
        /\ coUninits[l] <= coInits[l] /\ coInits[l] <= 1
        /\ aelState[l] \in {"dropped", "failed"} => coUninits[l] = coInits[l]
        /\ aelState[l] = "alive" => coInits[l] = 1 /\ coUninits[l] = 0
        /\ coUninits[l] >= 1 => l \notin aelRegistered

\* C23: the channel of a stream, collection or volume, never holds more
\* than the one item of its capacity, and it is a queue: an item enters at
\* the tail, put there by a send task, and leaves from the head, taken by
\* the future of a pull.  For an awaited pull an Ok item is then held by
\* the future and an Err item is that pull's failure; for a pull the
\* consumer had cancelled an Ok item is held by the future, which will
\* throw it away, and an Err item ends the future with nothing reported.
C23_ChannelHoldsOneItemInOrder ==
    /\ [](\A s \in Streams : /\ Len(queue[s]) <= ChannelCapacity
                             /\ Len(vqueue[s]) <= ChannelCapacity)
    /\ [][\A s \in Streams :
            queue'[s] # queue[s] =>
                \/ /\ \E t \in TasksOf(s) :
                          /\ queue'[s] = Append(queue[s], [seq |-> t.seq, item |-> t.item])
                          /\ tasks' = tasks \ {t}
                   /\ received' = received /\ taken' = taken /\ ctaken' = ctaken
                   /\ cancelled' = cancelled /\ pending' = pending
                \/ /\ queue[s] # <<>> /\ queue'[s] = Tail(queue[s])
                   /\ tasks' = tasks
                   /\ \/ /\ Waiting(s) > 0
                         /\ cancelled' = cancelled /\ ctaken' = ctaken
                         /\ IF queue[s][1].item.ok
                            THEN /\ taken'[s] = taken[s] \cup {queue[s][1]}
                                 /\ received' = received /\ pending' = pending
                            ELSE /\ received'[s] = Append(received[s],
                                        Pulled("error", queue[s][1].seq, queue[s][1].item))
                                 /\ taken' = taken
                                 /\ pending'[s] = pending[s] - 1
                      \/ /\ cancelled[s] > 0
                         /\ cancelled'[s] = cancelled[s] - 1
                         /\ received' = received /\ taken' = taken
                         /\ IF queue[s][1].item.ok
                            THEN /\ ctaken'[s] = ctaken[s] \cup {queue[s][1]}
                                 /\ pending' = pending
                            ELSE /\ ctaken' = ctaken
                                 /\ pending'[s] = pending[s] - 1]_vars
    /\ [][\A k \in Streams :
            vqueue'[k] # vqueue[k] =>
                \/ /\ \E t \in VTasksOf(k) :
                          /\ vqueue'[k] = Append(vqueue[k], [seq |-> t.seq, ev |-> t.ev])
                          /\ vtasks' = vtasks \ {t}
                   /\ vreceived' = vreceived /\ vtaken' = vtaken /\ vctaken' = vctaken
                   /\ vcancelled' = vcancelled /\ vpending' = vpending
                \/ /\ vqueue[k] # <<>> /\ vqueue'[k] = Tail(vqueue[k])
                   /\ vtasks' = vtasks /\ vreceived' = vreceived
                   /\ vpending' = vpending
                   /\ \/ /\ VWaiting(k) > 0
                         /\ vtaken'[k] = vtaken[k] \cup {vqueue[k][1]}
                         /\ vcancelled' = vcancelled /\ vctaken' = vctaken
                      \/ /\ vcancelled[k] > 0
                         /\ vcancelled'[k] = vcancelled[k] - 1
                         /\ vctaken'[k] = vctaken[k] \cup {vqueue[k][1]}
                         /\ vtaken' = vtaken]_vars

\* a pull has taken the item at the head of the channel and holds it,
\* waiting for the interpreter lock, and the send that was waiting behind
\* that item has put the next one in
C23_Witness ==
    /\ itState[1] = "live" /\ received[1] = <<>> /\ pending[1] = 1
    /\ Cardinality(taken[1]) = 1
    /\ Len(queue[1]) = ChannelCapacity /\ tasks = {}
    /\ \A e \in taken[1] : e.seq # queue[1][1].seq

\* events retained for a stream: the items queued in its channel and the
\* items held by its pending send tasks
Retained(s) == Len(queue[s]) + Cardinality(TasksOf(s))

VRetained(k) == Len(vqueue[k]) + Cardinality(VTasksOf(k))

\* C24: while the consumer of a stream has never pulled (no pull has
\* completed and none is pending), the events
\* retained for it are no more than its channel holds, however many
\* callbacks have been invoked.
C24_RetainedStaysBounded ==
    /\ \A s \in Streams :
          itState[s] = "live" /\ received[s] = <<>> /\ ~ended[s] /\ pending[s] = 0
              => Retained(s) <= ChannelCapacity
    /\ \A k \in Streams :
          vIt[k] = "live" /\ vreceived[k] = <<>> /\ ~vended[k] /\ vpending[k] = 0
              => VRetained(k) <= ChannelCapacity

\* the event carries the notification: as many channel volumes as the
\* notification announces, each equal to the array's entry at its position
\* (for every position the array has), and the notification's mute flag
\* and master volume
EventMatches(ev, n) ==
    /\ Len(ev.channel_volumes) = n.nChannels
    /\ \A i \in 1..n.nChannels :
          i <= Len(n.mem) => ev.channel_volumes[i] = n.mem[i]
    /\ ev.mute = n.bMuted
    /\ ev.volume = n.fMasterVolume

\* C25: every VolumeChangeEvent produced for a notification, wherever it
\* is (held by a send task, queued, held by the future of an awaited or
\* of a cancelled pull, received), has exactly nChannels channel volumes,
\* equal element by element to the first nChannels entries of the
\* notification's array, and the notification's mute flag and master
\* volume.
C25_EventCarriesAllChannelVolumes ==
    /\ \A t \in vtasks :
          t.seq \in 1..Len(invoked) /\ EventMatches(t.ev, invoked[t.seq])
    /\ \A k \in Streams : \A i \in 1..Len(vqueue[k]) :
          /\ vqueue[k][i].seq \in 1..Len(invoked)
          /\ EventMatches(vqueue[k][i].ev, invoked[vqueue[k][i].seq])
    /\ \A k \in Streams : \A e \in vtaken[k] \cup vctaken[k] :
          e.seq \in 1..Len(invoked) /\ EventMatches(e.ev, invoked[e.seq])
    /\ \A k \in Streams : \A i \in 1..Len(vreceived[k]) :
          /\ vreceived[k][i].seq \in 1..Len(invoked)
          /\ EventMatches(vreceived[k][i].ev, invoked[vreceived[k][i].seq])

\* the consumer holds the event of a three-channel notification, with the
\* three volumes, and the event of a notification without channels
C25_Witness ==
    /\ Len(vreceived[1]) = 2
    /\ \E i, j \in 1..2 :
          /\ vreceived[1][i].ev =
                [mute |-> TRUE, volume |-> 7, channel_volumes |-> <<5, 7, 8>>]
          /\ vreceived[1][j].ev =
                [mute |-> FALSE, volume |-> 3, channel_volumes |-> <<>>]

\* the consumer of volume stream k has received the event of invocation i
VReceivedFor(k, i) == {j \in 1..Len(vreceived[k]) : vreceived[k][j].seq = i}

\* C26: an item that a callback has handed to a send task reaches the
\* consumer that keeps pulling, unless every receiver of the stream is
\* dropped (the iterator's and the pending pulls'):
\* the send waits for room in the channel, it does not give the item up.
C26_SubmittedItemIsDelivered ==
    /\ \A i \in 1..MaxCalls :
          (\E t \in TasksOf(1) : t.seq = i)
              ~> (ReceivedFor(i) # {} \/ ReceiverGone(1))
    /\ \A i \in 1..MaxCalls :
          (vIt[1] = "live" /\ \E t \in VTasksOf(1) : t.seq = i)
              ~> (VReceivedFor(1, i) # {} \/ VReceiverGone(1))

\* two callbacks ran on the live stream and the consumer holds the items
\* of both, nothing left queued or pending
C26_Witness ==
    /\ itState[1] = "live" /\ calls = 2 /\ tasks = {} /\ queue[1] = <<>>
    /\ ReceivedFor(1) # {} /\ ReceivedFor(2) # {}

\* C27: the drop of a volume stream's iterator touches the registration
\* of that stream's sink only: every other sink registered with the
\* endpoint stays registered, and a listener of another stream stays
\* stored in the device.
C27_DropTouchesOwnRegistrationOnly ==
    [][\A k \in Streams :
          vIt[k] = "live" /\ vIt'[k] = "dropped" =>
              /\ epRegistered' \ {k} = epRegistered \ {k}
              /\ volume_listener # k => volume_listener' = volume_listener]_vars

\* C28: when register_volume_change returns an error, whichever of its
\* calls failed, the device stores the listener it stored when the call
\* began and the endpoint has the sinks registered it had then: the
\* earlier registration is kept, the failed call's sink is not registered.
C28_FailedRegistrationChangesNothing ==
    [][\A k \in Streams :
          vIt[k] = "unborn" /\ vIt'[k] = "failed" =>
              /\ regSnap'.sink = k
              /\ volume_listener' = regSnap'.listener
              /\ epRegistered' = regSnap'.registered]_vars

\* everything that belongs to collection stream r: its sink's
\* registration, its iterator, its channel, its send tasks, its futures
\* and what its consumer has seen
StreamOf(r) ==
    <<r \in collRegistered, itState[r], source[r], queue[r], TasksOf(r),
      received[r], ended[r], pending[r], taken[r], cancelled[r], ctaken[r]>>

\* C29: the collection streams are independent.  The subsystem can invoke
\* the callback of every registered sink, whatever the state of the other
\* streams; a callback invoked on a sink (a notification is one callback
\* on each registered sink) hands one item to a send task of that sink's
\* own channel and leaves the other streams alone; no step (events, pull,
\* cancel, send, close, drop) changes anything of two streams; and the
\* close or drop that takes a stream's source away unregisters that
\* stream's sink at most.
C29_CollectionStreamsIndependent ==
    /\ [](\A s \in collRegistered : \A w \in FewIds :
            ENABLED ( /\ OnDeviceStateChanged(s, w, 1)
                      /\ \E t \in tasks' \ tasks : t.ch = s
                      /\ \A r \in Streams \ {s} : StreamOf(r)' = StreamOf(r) ))
    /\ [][calls' # calls =>
            \E s \in collRegistered :
                /\ \E t \in TasksOf(s)' \ TasksOf(s) :
                       /\ tasks' = tasks \cup {t}
                       /\ t.seq = calls' /\ t.item.ok
                /\ queue' = queue
                /\ \A r \in Streams \ {s} : StreamOf(r)' = StreamOf(r)]_vars
    /\ [][Cardinality({s \in Streams : StreamOf(s)' # StreamOf(s)}) <= 1]_vars
    /\ [][\A s \in Streams :
            source[s] /\ ~source'[s] =>
                collRegistered' \in {collRegistered, collRegistered \ {s}}]_vars

\* a notification reached both streams: each consumer holds the event of
\* the callback invoked on its own sink; then the first stream was dropped
\* and its sink unregistered, and the second is still registered, holds
\* its source and has its channel open
C29_Witness ==
    /\ calls = 2
    /\ Len(received[1]) = 1 /\ received[1][1].res = "event"
    /\ Len(received[2]) = 1 /\ received[2][1].res = "event"
    /\ received[1][1].item = received[2][1].item
    /\ itState[1] = "dropped" /\ 1 \notin collRegistered
    /\ itState[2] = "live" /\ source[2] /\ 2 \in collRegistered
    /\ ~ended[2] /\ ~SendersGone(2)

\* bitwise AND of two naturals
RECURSIVE BitAnd(_, _)
BitAnd(a, b) ==
    IF a = 0 \/ b = 0 THEN 0
    ELSE (a % 2) * (b % 2) + 2 * BitAnd(a \div 2, b \div 2)

\* the values the flow and the role enums define
DefinedFlows == {0, 1, 2}
DefinedRoles == {0, 1, 2}

\* the items of stream 1 wherever they are: held by a send task, queued,
\* held by the future of an awaited or of a cancelled pull, or received
ItemsInFlight ==
    {[seq |-> t.seq, item |-> t.item] : t \in TasksOf(1)}
    \cup taken[1] \cup ctaken[1]
    \cup {[seq |-> queue[1][i].seq, item |-> queue[1][i].item] : i \in 1..Len(queue[1])}
    \cup {[seq |-> received[1][i].seq, item |-> received[1][i].item] :
              i \in 1..Len(received[1])}

\* C30: an OnDeviceStateChanged or OnDefaultDeviceChanged invocation
\* submits one item.  With a valid device id, OnDeviceStateChanged
\* submits StateChanged for every state value, its state the input with
\* the bits outside the state mask cleared, and OnDefaultDeviceChanged
\* submits an Err item exactly when the flow or the role is not one of its
\* three defined values.  (With an invalid id both submit an Err item.)
C30_StateTruncatedFlowAndRoleChecked ==
    /\ invoked # <<>> => lastCall.submitted = 1 /\ lastCall.ret = "Ok"
    /\ \A e \in ItemsInFlight :
          /\ e.seq \in 1..Len(invoked)
          /\ LET inv == invoked[e.seq]
                 idOk == PcwstrToString(inv.wid).ok
             IN  /\ ~idOk => ~e.item.ok
                 /\ idOk /\ inv.method = "OnDeviceStateChanged" =>
                       /\ e.item.ok /\ e.item.kind = "StateChanged"
                       /\ e.item.state = BitAnd(inv.state, DEVICE_STATEMASK_ALL)
                 /\ idOk /\ inv.method = "OnDefaultDeviceChanged" =>
                       /\ ~e.item.ok <=> (inv.flow \notin DefinedFlows
                                             \/ inv.role \notin DefinedRoles)
                       /\ e.item.ok => e.item.kind = "DefaultChanged"

\* the consumer holds StateChanged with state 2 for the raw state 18,
\* which has a bit outside the mask
C30_Witness ==
    /\ Len(invoked) = 1 /\ invoked[1].method = "OnDeviceStateChanged"
    /\ invoked[1].state = 18 /\ invoked[1].wid = <<"a">>
    /\ Len(received[1]) = 1 /\ received[1][1].res = "event"
    /\ received[1][1].item.state = 2

====
